---- MODULE Spec2Model ----
(***************************************************************************)
(* A model of the HaHaWeather comparison app: the derived-metrics engine   *)
(* (js/weatherCalculations.js), the temporal alignment layer of the UI     *)
(* (deriveDateKeys, alertAppliesOnDate, renderWeatherTable) and the        *)
(* asynchronous location lookups of the app (updateLocation, setLocation). *)
(*                                                                         *)
(* Numbers.  A JavaScript number is modelled in fixed point: the integer n *)
(* stands for n/1000 (72000 is 72 degrees F, 7500 is 7.5 mph, 50000 is a   *)
(* relative humidity of 50 percent).  A JavaScript value is a record whose *)
(* field k names its kind: "num" (finite number, field v), "nan", "undef", *)
(* "null", "str" (a string, field s: the sequence of its characters) and   *)
(* "obj" (an object with the fields the code reads).                       *)
(*                                                                         *)
(* Time.  An instant is a number of seconds since 1970-01-01T00:00:00Z.    *)
(* The runtime's local zone is a fixed offset tz (seconds east of UTC);    *)
(* daylight-saving changes are not modelled.                               *)
(***************************************************************************)
EXTENDS Integers, Sequences, FiniteSets, TLC

VARIABLES
  tz,          \* offset of the runtime's local time zone, seconds east of UTC
  now,         \* the instant new Date() returns
  call,        \* the call of a core function under examination: its name and arguments
  ret,         \* what that call returned ("pending" before it ran)
  locations,   \* appState.locations: the three location slots
  lookups,     \* the updateLocation calls started so far, each with its position
  rendered,    \* the argument of the last renderWeatherTable call
  stored,      \* the lookups that have stored their result, in the order they did
  loading,     \* the loading overlay is displayed
  cookie       \* the location names saved in the cookie

vars == <<tz, now, call, ret, locations, lookups, rendered, stored, loading, cookie>>

-----------------------------------------------------------------------------
(* JavaScript values *)

Num(n) == [k |-> "num", v |-> n]
NaN == [k |-> "nan"]
Undefined == [k |-> "undef"]
Infinity == [k |-> "inf", sign |-> 1]
MinusInfinity == [k |-> "inf", sign |-> -1]
Null == [k |-> "null"]
Str(s) == [k |-> "str", s |-> s]

\* n degrees (or mph, or percent) as a fixed-point number
Deg(n) == n * 1000

\* Number.isFinite(x)
isFinite(x) == x.k = "num"

\* x == null (true of null and undefined)
isNullish(x) == x.k \in {"undef", "null"}

Digits == <<"0", "1", "2", "3", "4", "5", "6", "7", "8", "9">>

IsDigit(c) == \E i \in 1..10 : Digits[i] = c

DigitVal(c) == (CHOOSE i \in 1..10 : Digits[i] = c) - 1

RECURSIVE DecimalValue(_)
\* the value of a non-empty sequence of digits
DecimalValue(s) ==
  IF s = <<>> THEN 0
  ELSE 10 * DecimalValue(SubSeq(s, 1, Len(s) - 1)) + DigitVal(s[Len(s)])

AllDigits(s) == s # <<>> /\ \A i \in 1..Len(s) : IsDigit(s[i])

\* Number(x) for the values the code converts: a string converts to the number it
\* spells (here: an optional sign and digits), the empty string and null to 0,
\* anything else to NaN.
Number(x) ==
  CASE x.k \in {"num", "inf"} -> x
    [] x.k = "null" -> Num(0)
    [] x.k = "str" ->
         IF x.s = <<>> THEN Num(0)
         ELSE IF AllDigits(x.s) THEN Num(Deg(DecimalValue(x.s)))
         ELSE IF Len(x.s) > 1 /\ x.s[1] = "-" /\ AllDigits(Tail(x.s))
           THEN Num(- Deg(DecimalValue(Tail(x.s))))
         ELSE NaN
    [] OTHER -> NaN

Max(a, b) == IF a >= b THEN a ELSE b
Min(a, b) == IF a <= b THEN a ELSE b

\* Math.round on a fixed-point number: the nearest integer, halves rounded up
MathRound(n) == ((n + 500) \div 1000) * 1000

\* floor(x * c8 / 10^8) for 0 <= x and a coefficient c8 = c * 10^8, computed limb
\* by limb (base 10^4) so that no intermediate product leaves 32 bits
Mul8(x, c8) ==
  LET x2 == x \div 100000000
      x1 == (x \div 10000) % 10000
      x0 == x % 10000
      c2 == c8 \div 100000000
      c1 == (c8 \div 10000) % 10000
      c0 == c8 % 10000
  IN  x2 * c2 * 100000000
      + (x2 * c1 + x1 * c2) * 10000
      + (x2 * c0 + x1 * c1 + x0 * c2)
      + (x1 * c0 + x0 * c1 + (x0 * c0) \div 10000) \div 10000

\* x * c for a fixed-point x of either sign and a coefficient c >= 0 given as c * 10^8
Times(x, c8) == IF x >= 0 THEN Mul8(x, c8) ELSE - Mul8(- x, c8)

\* the largest r with r * r <= n
ISqrt(n) == CHOOSE r \in 0..1000 : r * r <= n /\ (r + 1) * (r + 1) > n

\* Math.sqrt on a fixed-point number in [0, 1]
MathSqrt(x) == ISqrt(x * 1000)

\* w^0.16 * 10^4 for w = 0, 0.5, 1, ... 60 mph
PowTable ==
  << 0, 8950, 10000, 10670, 11173, 11579, 11922, 12219, 12483, 12721, 12937,
     13136, 13320, 13492, 13653, 13804, 13947, 14083, 14213, 14336, 14454, 14568,
     14677, 14781, 14882, 14980, 15074, 15165, 15254, 15340, 15423, 15504, 15583,
     15660, 15735, 15808, 15880, 15950, 16018, 16084, 16150, 16214, 16276, 16338,
     16398, 16457, 16515, 16572, 16628, 16683, 16737, 16790, 16842, 16893, 16944,
     16994, 17043, 17091, 17139, 17186, 17232, 17278, 17323, 17367, 17411, 17454,
     17497, 17539, 17581, 17622, 17662, 17703, 17742, 17781, 17820, 17859, 17896,
     17934, 17971, 18008, 18044, 18080, 18115, 18150, 18185, 18220, 18254, 18288,
     18321, 18354, 18387, 18420, 18452, 18484, 18516, 18547, 18578, 18609, 18639,
     18670, 18700, 18730, 18759, 18788, 18817, 18846, 18875, 18903, 18931, 18959,
     18987, 19015, 19042, 19069, 19096, 19123, 19149, 19175, 19202, 19227, 19253 >>

\* Math.pow(windMph, 0.16) * 10^4 for 0 <= windMph < 60 mph: the table, with
\* linear interpolation between its half-mph entries
Pow016(w) ==
  LET i == w \div 500 + 1
      f == w % 500
  IN  IF f = 0 THEN PowTable[i]
      ELSE PowTable[i] + ((PowTable[i + 1] - PowTable[i]) * f) \div 500

-----------------------------------------------------------------------------
(* js/weatherCalculations.js: the RealFeel formulas *)

\* clamp(n, min, max)
clamp(n, lo, hi) == Min(hi, Max(lo, n))

\* Faulty variant of calculateWindChill: the term 35.75 * W^0.16 added
calculateWindChillRising(tempF, windMph) ==
  IF tempF > Deg(50) \/ windMph < Deg(3) THEN tempF
  ELSE LET p == Pow016(windMph)
       IN  35740
           + Times(tempF, 62150000)
           + Mul8(p, 357500000)
           + Times(Times(tempF, p * 10000), 42750000)

\* calculateWindChill(tempF, windMph) on finite numbers
calculateWindChill(tempF, windMph) ==
  IF tempF > Deg(50) \/ windMph < Deg(3) THEN tempF
  ELSE LET p == Pow016(windMph)
       IN  35740
           + Times(tempF, 62150000)
           - Mul8(p, 357500000)
           + Times(Times(tempF, p * 10000), 42750000)

\* the Rothfusz regression of calculateHeatIndex, for T and RH in tenths
Rothfusz(T, RH) ==
  LET t == T \div 100
      h == RH \div 100
      t2h == t * t * h
  IN  - 42379
      + Mul8(T, 204901523)
      + Mul8(RH, 1014333127)
      - Mul8(t * h * 10, 22475541)
      - Mul8(t * t * 10, 683783)
      - Mul8(h * h * 10, 5481717)
      + Mul8(t2h, 122874)
      + Mul8(t * h * h, 85282)
      - Mul8(((t2h \div 1000) * h) \div 10, 199000)

\* Faulty variant of calculateHeatIndex: no early return for a humidity under 40
calculateHeatIndexNoHumidityGate(tempF, humidityPct) ==
  LET T == tempF
      RH == clamp(IF isNullish(humidityPct) THEN Deg(50) ELSE humidityPct.v, 0, Deg(100))
      HI == Rothfusz(T, RH)
      lowAdj == IF RH < Deg(13) /\ T >= Deg(80) /\ T <= Deg(112)
                THEN (((Deg(13) - RH) \div 4)
                       * MathSqrt(((Deg(17) - (IF T >= Deg(95) THEN T - Deg(95) ELSE Deg(95) - T))) \div 17))
                     \div 1000
                ELSE 0
      highAdj == IF RH > Deg(85) /\ T >= Deg(80) /\ T <= Deg(87)
                 THEN ((RH - Deg(85)) * (Deg(87) - T)) \div 50000
                 ELSE 0
  IN  IF T < Deg(80) THEN T
      ELSE HI - lowAdj + highAdj

\* Faulty variant of calculateHeatIndex: the high-humidity adjustment made at every
\* temperature
calculateHeatIndexAdjustAlways(tempF, humidityPct) ==
  LET T == tempF
      RH == clamp(IF isNullish(humidityPct) THEN Deg(50) ELSE humidityPct.v, 0, Deg(100))
      HI == Rothfusz(T, RH)
      highAdj == IF RH > Deg(85) /\ T >= Deg(80)
                 THEN ((RH - Deg(85)) * (Deg(87) - T)) \div 50000
                 ELSE 0
  IN  IF T < Deg(80) \/ RH < Deg(40) THEN T
      ELSE HI + highAdj

\* calculateHeatIndex(tempF, humidityPct) on a finite tempF; humidityPct is a
\* number or null/undefined (humidityPct ?? 50)
calculateHeatIndex(tempF, humidityPct) ==
  LET T == tempF
      RH == clamp(IF isNullish(humidityPct) THEN Deg(50) ELSE humidityPct.v, 0, Deg(100))
      HI == Rothfusz(T, RH)
      lowAdj == IF RH < Deg(13) /\ T >= Deg(80) /\ T <= Deg(112)
                THEN (((Deg(13) - RH) \div 4)
                       * MathSqrt(((Deg(17) - (IF T >= Deg(95) THEN T - Deg(95) ELSE Deg(95) - T))) \div 17))
                     \div 1000
                ELSE 0
      highAdj == IF RH > Deg(85) /\ T >= Deg(80) /\ T <= Deg(87)
                 THEN ((RH - Deg(85)) * (Deg(87) - T)) \div 50000
                 ELSE 0
  IN  IF T < Deg(80) \/ RH < Deg(40) THEN T
      ELSE HI - lowAdj + highAdj

\* Faulty variant of realFeelBranch: the wind-chill branch without its wind gate
realFeelBranchNoWindGate(tempF, windSpeedMph, humidityPct) ==
  LET T == Number(tempF)
      RH == IF isFinite(humidityPct) THEN humidityPct ELSE Num(Deg(50))
  IN  IF ~ isFinite(T) THEN "nan"
      ELSE IF T.v <= Deg(50) THEN "windChill"
      ELSE IF T.v >= Deg(80) /\ RH.v >= Deg(40) THEN "heatIndex"
      ELSE "temp"

\* which return statement of calculateRealFeel is taken
realFeelBranch(tempF, windSpeedMph, humidityPct) ==
  LET T == Number(tempF)
      W == Number(windSpeedMph)
      RH == IF isFinite(humidityPct) THEN humidityPct ELSE Num(Deg(50))
  IN  IF ~ isFinite(T) THEN "nan"
      ELSE IF T.v <= Deg(50) /\ isFinite(W) /\ W.v >= Deg(3) THEN "windChill"
      ELSE IF T.v >= Deg(80) /\ RH.v >= Deg(40) THEN "heatIndex"
      ELSE "temp"

\* Faulty variant of calculateRealFeel: 100 instead of 50 passed on for a humidity that
\* is not a finite number
calculateRealFeelDefaultSaturated(tempF, windSpeedMph, humidityPct) ==
  LET T == Number(tempF)
      W == Number(windSpeedMph)
      RH == IF isFinite(humidityPct) THEN humidityPct ELSE Num(Deg(100))
      b == realFeelBranch(tempF, windSpeedMph, humidityPct)
  IN  CASE b = "nan" -> NaN
        [] b = "windChill" -> Num(calculateWindChill(T.v, W.v))
        [] b = "heatIndex" -> Num(calculateHeatIndex(T.v, RH))
        [] OTHER -> T

\* calculateRealFeel(tempF, windSpeedMph, humidityPct)
calculateRealFeel(tempF, windSpeedMph, humidityPct) ==
  LET T == Number(tempF)
      W == Number(windSpeedMph)
      RH == IF isFinite(humidityPct) THEN humidityPct ELSE Num(Deg(50))
      b == realFeelBranch(tempF, windSpeedMph, humidityPct)
  IN  CASE b = "nan" -> NaN
        [] b = "windChill" -> Num(calculateWindChill(T.v, W.v))
        [] b = "heatIndex" -> Num(calculateHeatIndex(T.v, RH))
        [] OTHER -> T

-----------------------------------------------------------------------------
(* Strings, dates and the Date object *)

\* the decimal digits of n >= 0, at least one
RECURSIVE NumToStr(_)
NumToStr(n) ==
  IF n < 10 THEN <<Digits[n + 1]>>
  ELSE NumToStr(n \div 10) \o <<Digits[(n % 10) + 1]>>

\* String(n).padStart(2, "0")
padStart2(s) == IF Len(s) < 2 THEN <<"0">> \o s ELSE s

\* String(n).padStart(4, "0"), used to write the timestamps given to the code
RECURSIVE padStart4(_)
padStart4(s) == IF Len(s) < 4 THEN padStart4(<<"0">> \o s) ELSE s

\* days from 1970-01-01 to the civil date y-m-d (proleptic Gregorian calendar)
DaysFromCivil(y, m, d) ==
  LET yy == IF m <= 2 THEN y - 1 ELSE y
      era == yy \div 400
      yoe == yy - era * 400
      mp == IF m > 2 THEN m - 3 ELSE m + 9
      doy == (153 * mp + 2) \div 5 + d - 1
      doe == yoe * 365 + yoe \div 4 - yoe \div 100 + doy
  IN  era * 146097 + doe - 719468

\* the civil date <<y, m, d>> of the day z days after 1970-01-01
CivilFromDays(z) ==
  LET zz == z + 719468
      era == zz \div 146097
      doe == zz - era * 146097
      yoe == (doe - doe \div 1460 + doe \div 36524 - doe \div 146096) \div 365
      doy == doe - (365 * yoe + yoe \div 4 - yoe \div 100)
      mp == (5 * doy + 2) \div 153
      d == doy - (153 * mp + 2) \div 5 + 1
      m == IF mp < 10 THEN mp + 3 ELSE mp - 9
      y == yoe + era * 400
  IN  <<IF m <= 2 THEN y + 1 ELSE y, m, d>>

\* a Date object: valid with its instant, or invalid
Date(t) == [k |-> "date", t |-> t]
InvalidDate == [k |-> "invalid"]

\* the substring s[a..b] holds digits only
DigitsAt(s, a, b) == \A i \in a..b : IsDigit(s[i])

\* the number written in s[a..b]
NumAt(s, a, b) == DecimalValue(SubSeq(s, a, b))

\* s[1..10] is YYYY-MM-DD with a month and a day that exist
IsIsoDate(s) ==
  /\ Len(s) >= 10
  /\ DigitsAt(s, 1, 4) /\ s[5] = "-" /\ DigitsAt(s, 6, 7) /\ s[8] = "-" /\ DigitsAt(s, 9, 10)
  /\ NumAt(s, 6, 7) \in 1..12
  /\ NumAt(s, 9, 10) \in 1..31

\* s[11..19] is THH:MM:SS
IsIsoTime(s) ==
  /\ Len(s) >= 19
  /\ s[11] = "T" /\ DigitsAt(s, 12, 13) /\ s[14] = ":" /\ DigitsAt(s, 15, 16)
  /\ s[17] = ":" /\ DigitsAt(s, 18, 19)
  /\ NumAt(s, 12, 13) \in 0..23 /\ NumAt(s, 15, 16) \in 0..59 /\ NumAt(s, 18, 19) \in 0..59

\* s[20..25] is +HH:MM or -HH:MM
IsIsoOffset(s) ==
  /\ Len(s) = 25
  /\ s[20] \in {"+", "-"} /\ DigitsAt(s, 21, 22) /\ s[23] = ":" /\ DigitsAt(s, 24, 25)

\* the seconds of the wall-clock date and time written in s[1..19], counted as if UTC
WallSeconds(s) ==
  DaysFromCivil(NumAt(s, 1, 4), NumAt(s, 6, 7), NumAt(s, 9, 10)) * 86400
  + (IF Len(s) >= 19
     THEN NumAt(s, 12, 13) * 3600 + NumAt(s, 15, 16) * 60 + NumAt(s, 18, 19)
     ELSE 0)

\* the offset written in s[20..25], seconds east of UTC
OffsetSeconds(s) ==
  (IF s[20] = "-" THEN -1 ELSE 1) * (NumAt(s, 21, 22) * 3600 + NumAt(s, 24, 25) * 60)

\* Date.parse of a string: the ISO forms YYYY-MM-DD (UTC), YYYY-MM-DDTHH:MM:SS (local
\* time), YYYY-MM-DDTHH:MM:SSZ and YYYY-MM-DDTHH:MM:SS+HH:MM; anything else is invalid
DateParse(s, zone) ==
  IF ~ IsIsoDate(s) THEN InvalidDate
  ELSE IF Len(s) = 10 THEN Date(WallSeconds(s))
  ELSE IF ~ IsIsoTime(s) THEN InvalidDate
  ELSE IF Len(s) = 19 THEN Date(WallSeconds(s) - zone)
  ELSE IF Len(s) = 20 /\ s[20] = "Z" THEN Date(WallSeconds(s))
  ELSE IF IsIsoOffset(s) THEN Date(WallSeconds(s) - OffsetSeconds(s))
  ELSE InvalidDate

\* new Date(x): x a string, a Date, null (the epoch) or undefined (invalid)
NewDate(x, zone) ==
  CASE x.k = "str" -> DateParse(x.s, zone)
    [] x.k = "date" -> x
    [] x.k = "null" -> Date(0)
    [] x.k = "num" -> Date(x.v \div 1000000)
    [] OTHER -> InvalidDate

\* new Date(y, m, d, hh, mm, ss): local time, m zero-indexed; invalid when a part is NaN
NewDateLocal(y, m, d, hh, mm, ss, zone) ==
  IF ~ (isFinite(y) /\ isFinite(m) /\ isFinite(d)) THEN InvalidDate
  ELSE LET yi == y.v \div 1000
           mi == m.v \div 1000
           di == d.v \div 1000
           my == yi + (mi \div 12)
           mm0 == mi % 12
       IN  Date((DaysFromCivil(my, mm0 + 1, 1) + di - 1) * 86400
                + hh * 3600 + mm * 60 + ss - zone)

\* <<getFullYear(), getMonth() + 1, getDate()>> of a valid Date in the local zone
LocalYMD(d, zone) == CivilFromDays((d.t + zone) \div 86400)

\* the date key YYYY-MM-DD of the civil date y-m-d
KeyOfYMD(ymd) ==
  NumToStr(ymd[1]) \o <<"-">> \o padStart2(NumToStr(ymd[2])) \o <<"-">> \o padStart2(NumToStr(ymd[3]))

NaNKey == <<"N", "a", "N", "-", "N", "a", "N", "-", "N", "a", "N">>

\* formatDateKey(dateLike) of the UI and formatDateKeyLocal(dateLike) of the
\* calculations: the local date of new Date(dateLike) as YYYY-MM-DD
formatDateKey(dateLike, zone) ==
  LET d == NewDate(dateLike, zone)
  IN  IF d.k = "invalid" THEN NaNKey ELSE KeyOfYMD(LocalYMD(d, zone))

formatDateKeyLocal(dateLike, zone) == formatDateKey(dateLike, zone)

\* the order of the characters that occur in date keys, as JavaScript compares them
CharOrder == <<"-", "0", "1", "2", "3", "4", "5", "6", "7", "8", "9",
               "N", "a", "k", "n", "o", "u", "w">>

CharCode(c) == CHOOSE i \in 1..Len(CharOrder) : CharOrder[i] = c

\* a < b for strings, as the operators <, >= and localeCompare order them here
RECURSIVE StrLess(_, _)
StrLess(a, b) ==
  IF b = <<>> THEN FALSE
  ELSE IF a = <<>> THEN TRUE
  ELSE IF a[1] # b[1] THEN CharCode(a[1]) < CharCode(b[1])
  ELSE StrLess(Tail(a), Tail(b))

\* the first index of character c in s, 0 when it does not occur
IndexOf(s, c) ==
  IF \E i \in 1..Len(s) : s[i] = c
  THEN CHOOSE i \in 1..Len(s) : s[i] = c /\ \A j \in 1..(i - 1) : s[j] # c
  ELSE 0

-----------------------------------------------------------------------------
(* js/weatherCalculations.js: wind parsing, unit conversion, daily aggregation *)

\* an exception propagating out of a call
Throw == [k |-> "throw"]

\* !x for the values the code tests: undefined, null, "", 0 and NaN are falsy
falsy(x) ==
  \/ x.k \in {"undef", "null", "nan"}
  \/ x.k = "str" /\ x.s = <<>>
  \/ x.k = "num" /\ x.v = 0

\* the last index of the run of digits of s that starts at i
RunEnd(s, i) ==
  CHOOSE j \in i..Len(s) :
    /\ DigitsAt(s, i, j)
    /\ (j = Len(s) \/ ~ IsDigit(s[j + 1]))

\* the fixed-point value of the fraction digits d (.5 is 500, .25 is 250)
FracValue(d) ==
  LET d3 == SubSeq(d \o <<"0", "0", "0">>, 1, 3)
  IN  DecimalValue(d3)

\* the numbers /(\d+(\.\d+)?)/g matches in s from index i on, in order
RECURSIVE NumberTokens(_, _)
NumberTokens(s, i) ==
  IF i > Len(s) THEN <<>>
  ELSE IF ~ IsDigit(s[i]) THEN NumberTokens(s, i + 1)
  ELSE LET j == RunEnd(s, i)
           hasFrac == j + 2 <= Len(s) /\ s[j + 1] = "." /\ IsDigit(s[j + 2])
           e == IF hasFrac THEN RunEnd(s, j + 2) ELSE j
           val == Deg(NumAt(s, i, j))
                  + (IF hasFrac THEN FracValue(SubSeq(s, j + 2, e)) ELSE 0)
       IN  <<val>> \o NumberTokens(s, e + 1)

RECURSIVE SeqSum(_)
SeqSum(q) == IF q = <<>> THEN 0 ELSE q[1] + SeqSum(Tail(q))

\* Faulty variant of parseWindSpeedMph: the first number of the text (as parseFloat
\* would give for a text that starts with it)
parseWindSpeedMphFirstNumber(windSpeedStr) ==
  IF falsy(windSpeedStr) THEN Num(0)
  ELSE IF windSpeedStr.k # "str" THEN Throw
  ELSE LET nums == NumberTokens(windSpeedStr.s, 1)
       IN  IF Len(nums) = 0 THEN Num(0)
           ELSE Num(Max(0, nums[1]))

\* parseWindSpeedMph(windSpeedStr): a number, or an exception when the argument is
\* truthy and has no match method
parseWindSpeedMph(windSpeedStr) ==
  IF falsy(windSpeedStr) THEN Num(0)
  ELSE IF windSpeedStr.k # "str" THEN Throw
  ELSE LET nums == NumberTokens(windSpeedStr.s, 1)
       IN  IF Len(nums) = 0 THEN Num(0)
           ELSE Num(Max(0, SeqSum(nums) \div Len(nums)))

\* /degc/i.test(s)
MatchesDegC(s) ==
  \E i \in 1..(Len(s) - 3) :
    /\ s[i] \in {"d", "D"} /\ s[i + 1] \in {"e", "E"}
    /\ s[i + 2] \in {"g", "G"} /\ s[i + 3] \in {"c", "C"}

\* Faulty variant of toFahrenheit: the value returned as it is for every unit code
toFahrenheitUnconverted(value, unitCode) ==
  IF isNullish(value) \/ ~ isFinite(value) THEN Null
  ELSE value

\* toFahrenheit(value, unitCode)
toFahrenheit(value, unitCode) ==
  IF isNullish(value) \/ ~ isFinite(value) THEN Null
  ELSE IF ~ falsy(unitCode) /\ unitCode.k = "str" /\ MatchesDegC(unitCode.s)
    THEN Num((value.v * 9) \div 5 + Deg(32))
  ELSE value

UnknownKey == <<"u", "n", "k", "n", "o", "w", "n">>

\* Faulty variant of startDateOf: the date of the instant in UTC
startDateOfUtc(p) == formatDateKey(p.startTime, 0)

\* String(p.startTime || '').split('T')[0] || 'unknown'
startDateOf(p) ==
  LET str == IF falsy(p.startTime) THEN <<>> ELSE p.startTime.s
      t == IndexOf(str, "T")
      head == IF t = 0 THEN str ELSE SubSeq(str, 1, t - 1)
  IN  IF head = <<>> THEN UnknownKey ELSE head

\* const tempF = Number(p.temperature)
periodTempF(p) == Number(p.temperature)

\* const rh = clamp(p?.relativeHumidity?.value ?? 50, 0, 100)
periodHumidity(p) ==
  LET r == p.relativeHumidity
      val == IF r.k = "obj" THEN r.value ELSE Undefined
  IN  IF isNullish(val) THEN Num(Deg(50))
      ELSE IF isFinite(val) THEN Num(clamp(val.v, 0, Deg(100)))
      ELSE NaN

\* let apparentF = null; if (p.apparentTemperature != null) { ... }
periodApparentF(p) ==
  LET a == p.apparentTemperature
  IN  IF isNullish(a) THEN Null
      ELSE IF a.k = "obj" THEN toFahrenheit(a.value, a.unitCode)
      ELSE IF a.k \in {"num", "nan", "inf"} THEN a
      ELSE Null

\* Faulty variant of periodRealFeel: no RealFeel computed when none is reported
periodRealFeelReportedOnly(p) ==
  LET apparentF == periodApparentF(p)
  IN  IF isFinite(apparentF) THEN apparentF ELSE NaN

\* const realFeel = Number.isFinite(apparentF) ? apparentF : calculateRealFeel(...)
periodRealFeel(p) ==
  LET apparentF == periodApparentF(p)
  IN  IF isFinite(apparentF) THEN apparentF
      ELSE calculateRealFeel(periodTempF(p), parseWindSpeedMph(p.windSpeed), periodHumidity(p))

\* the body of periods.forEach throws for this period
periodThrows(p) ==
  \/ isNullish(p)
  \/ parseWindSpeedMph(p.windSpeed).k = "throw"

\* Math.max(...q) and Math.min(...q) of a non-empty sequence of numbers
MathMax(q) == CHOOSE x \in {q[i] : i \in 1..Len(q)} : \A i \in 1..Len(q) : x >= q[i]
MathMin(q) == CHOOSE x \in {q[i] : i \in 1..Len(q)} : \A i \in 1..Len(q) : x <= q[i]

\* the finite values among vals[i], for the periods i whose date key is date, in order
RECURSIVE bucketValues(_, _, _)
bucketValues(vals, keys, date) ==
  IF vals = <<>> THEN <<>>
  ELSE (IF keys[1] = date /\ isFinite(vals[1]) THEN <<vals[1].v>> ELSE <<>>)
       \o bucketValues(Tail(vals), Tail(keys), date)

\* Faulty variant of dailySummary: the RealFeel range taken from the temperatures
dailySummaryFromHighLow(rf, hs, ls) ==
  [ realFeelHigh |-> IF Len(hs) > 0 THEN Num(MathRound(MathMax(hs))) ELSE Null,
    realFeelLow  |-> IF Len(ls) > 0 THEN Num(MathRound(MathMin(ls))) ELSE Null,
    high         |-> IF Len(hs) > 0 THEN Num(MathRound(MathMax(hs))) ELSE Null,
    low          |-> IF Len(ls) > 0 THEN Num(MathRound(MathMin(ls))) ELSE Null ]

\* result[date] = { realFeelHigh, realFeelLow, high, low }
dailySummary(rf, hs, ls) ==
  [ realFeelHigh |-> IF Len(rf) > 0 THEN Num(MathRound(MathMax(rf))) ELSE Null,
    realFeelLow  |-> IF Len(rf) > 0 THEN Num(MathRound(MathMin(rf))) ELSE Null,
    high         |-> IF Len(hs) > 0 THEN Num(MathRound(MathMax(hs))) ELSE Null,
    low          |-> IF Len(ls) > 0 THEN Num(MathRound(MathMin(ls))) ELSE Null ]

\* the two loops of getDailyRealFeelRange, given each period's date key
dailyRange(periods, keys) ==
  IF \E i \in 1..Len(periods) : periodThrows(periods[i]) THEN Throw
  ELSE LET realFeels == [i \in 1..Len(periods) |-> periodRealFeel(periods[i])]
           temps == [i \in 1..Len(periods) |-> periodTempF(periods[i])]
       IN  [ k |-> "obj",
             map |-> [ date \in {keys[i] : i \in 1..Len(keys)} |->
                       dailySummary(bucketValues(realFeels, keys, date),
                                    bucketValues(temps, keys, date),
                                    bucketValues(temps, keys, date)) ] ]

\* getDailyRealFeelRange(periods) of js/weatherCalculations.js: the date key is the
\* date part of the startTime string
getDailyRealFeelRange(periods) ==
  dailyRange(periods,
             [i \in 1..Len(periods) |->
                IF isNullish(periods[i]) THEN UnknownKey ELSE startDateOf(periods[i])])

\* getDailyRealFeelRange(periods) of the revision that keys by formatDateKeyLocal
getDailyRealFeelRangeLocal(periods, zone) ==
  dailyRange(periods,
             [i \in 1..Len(periods) |->
                IF isNullish(periods[i]) THEN NaNKey
                ELSE formatDateKeyLocal(periods[i].startTime, zone)])

-----------------------------------------------------------------------------
(* unnamed/part_000, js/ui.js: the temporal alignment layer of the UI *)

\* a || b || ...: the first truthy operand, the last operand when none is truthy
FirstTruthy(q) ==
  IF \E i \in 1..Len(q) : ~ falsy(q[i])
  THEN q[CHOOSE i \in 1..Len(q) : ~ falsy(q[i]) /\ \A j \in 1..(i - 1) : falsy(q[j])]
  ELSE q[Len(q)]

\* Number(dateKey.slice(a, b))
SliceNumber(dateKey, a, b) == Number(Str(SubSeq(dateKey, Min(a + 1, Len(dateKey) + 1), Min(b, Len(dateKey)))))

\* x - 1 for a number or NaN
MinusOne(x) == IF isFinite(x) THEN Num(x.v - 1000) ELSE NaN

\* a <= b for two Date objects: false when either is invalid
DateLeq(a, b) == a.k = "date" /\ b.k = "date" /\ a.t <= b.t

\* Faulty variant of alertAppliesOnDate: the day window taken as an open interval
alertAppliesOnDateOpen(alert, dateKey, zone) ==
  IF falsy(alert) \/ falsy(alert.properties) THEN FALSE
  ELSE LET p == alert.properties
           eff == FirstTruthy(<<p.effective, p.onset, p.sent>>)
           exp == FirstTruthy(<<p.expires, p.ends>>)
           y == SliceNumber(dateKey, 0, 4)
           m == MinusOne(SliceNumber(dateKey, 5, 7))
           d == SliceNumber(dateKey, 8, 10)
           dayStart == NewDateLocal(y, m, d, 0, 0, 0, zone)
           dayEnd == NewDateLocal(y, m, d, 23, 59, 59, zone)
           start == IF falsy(eff) THEN dayStart ELSE NewDate(eff, zone)
           end == IF falsy(exp) THEN dayEnd ELSE NewDate(exp, zone)
       IN  DateLeq(dayStart, end) /\ DateLeq(start, dayEnd)
           /\ dayStart.t # end.t /\ start.t # dayEnd.t

\* alertAppliesOnDate(alert, dateKey) of a GeoJSON alert feature
alertAppliesOnDate(alert, dateKey, zone) ==
  IF falsy(alert) \/ falsy(alert.properties) THEN FALSE
  ELSE LET p == alert.properties
           eff == FirstTruthy(<<p.effective, p.onset, p.sent>>)
           exp == FirstTruthy(<<p.expires, p.ends>>)
           y == SliceNumber(dateKey, 0, 4)
           m == MinusOne(SliceNumber(dateKey, 5, 7))
           d == SliceNumber(dateKey, 8, 10)
           dayStart == NewDateLocal(y, m, d, 0, 0, 0, zone)
           dayEnd == NewDateLocal(y, m, d, 23, 59, 59, zone)
           start == IF falsy(eff) THEN dayStart ELSE NewDate(eff, zone)
           end == IF falsy(exp) THEN dayEnd ELSE NewDate(exp, zone)
       IN  DateLeq(dayStart, end) /\ DateLeq(start, dayEnd)

T000000 == <<"T", "0", "0", ":", "0", "0", ":", "0", "0">>
T235959 == <<"T", "2", "3", ":", "5", "9", ":", "5", "9">>

\* alertAppliesOnDate(alert, dateStr) of the revision whose alerts carry start and
\* end as Date objects; reading a field of a null alert throws
alertAppliesOnDateStartEnd(alert, dateStr, zone) ==
  IF isNullish(alert) THEN Throw
  ELSE LET dayStart == NewDate(Str(dateStr \o T000000), zone)
           dayEnd == NewDate(Str(dateStr \o T235959), zone)
           startsBeforeDayEnds == falsy(alert.start) \/ DateLeq(NewDate(alert.start, zone), dayEnd)
           endsAfterDayStarts == falsy(alert.end) \/ DateLeq(dayStart, NewDate(alert.end, zone))
       IN  startsBeforeDayEnds /\ endsAfterDayStarts

\* the properties of a feature without any
NoProperties ==
  [ k |-> "obj", effective |-> Undefined, onset |-> Undefined, sent |-> Undefined,
    expires |-> Undefined, ends |-> Undefined, event |-> Undefined ]

\* new Date(a || b || c || Date.now())
NewDateOrNow(q, clock, zone) ==
  IF falsy(FirstTruthy(q)) THEN Date(clock) ELSE NewDate(FirstTruthy(q), zone)

\* the alert object fetchNWSAlerts makes of a feature in the revision that
\* normalises alerts
normalizeAlert(alert, clock, zone) ==
  LET p == IF falsy(alert.properties) THEN NoProperties ELSE alert.properties
  IN  [ k |-> "obj", properties |-> Undefined, event |-> p.event,
        start |-> NewDateOrNow(<<p.onset, p.effective, p.sent>>, clock, zone),
        end |-> NewDateOrNow(<<p.ends, p.expires, p.onset>>, clock, zone) ]

\* an object without own keys, as a date -> summary map
EmptyMap == [k |-> "obj", map |-> <<>>]

\* normalizeDailyMap(dailyData): a map is returned as it is (the array form is
\* produced by no revision of getDailyRealFeelRange)
normalizeDailyMap(dailyData) == IF falsy(dailyData) THEN EmptyMap ELSE dailyData

RECURSIVE SortKeys(_)
\* Array.from(keySet).sort((a, b) => a.localeCompare(b))
SortKeys(S) ==
  IF S = {} THEN <<>>
  ELSE LET least == CHOOSE x \in S : \A y \in S \ {x} : StrLess(x, y)
       IN  <<least>> \o SortKeys(S \ {least})

\* Array.isArray(x)
isArray(x) == x.k = "arr"

Arr(items) == [k |-> "arr", items |-> items]

\* the elements of a sequence
Elems(q) == { q[i] : i \in 1..Len(q) }

\* loc && loc.dailyData
dailyDataOf(loc) == IF falsy(loc) THEN loc ELSE loc.dailyData

\* the keys the fallback loop adds for one slot
periodKeysOf(loc, clock, zone) ==
  IF ~ falsy(loc) /\ isArray(loc.periods)
  THEN { LET dateLike == FirstTruthy(<<p.startTime, p.start, p.date>>)
         IN  IF falsy(dateLike) THEN formatDateKey(Date(clock), zone)
             ELSE formatDateKey(dateLike, zone) : p \in Elems(loc.periods.items) }
  ELSE {}

\* deriveDateKeys(locations)
deriveDateKeys(locs, clock, zone) ==
  LET mapKeys == UNION { DOMAIN normalizeDailyMap(dailyDataOf(loc)).map : loc \in Elems(locs) }
      fallbackKeys == UNION { periodKeysOf(loc, clock, zone) : loc \in Elems(locs) }
      todayKey == formatDateKey(Date(clock), zone)
  IN  SortKeys({ key \in mapKeys \cup fallbackKeys : ~ StrLess(key, todayKey) })

\* items.find(...): the first element whose flag is set, undefined when none is
FindFirst(items, flags) ==
  IF \E i \in 1..Len(items) : flags[i]
  THEN items[CHOOSE i \in 1..Len(items) : flags[i] /\ \A j \in 1..(i - 1) : ~ flags[j]]
  ELSE Undefined

\* renderWeatherTable, newest revision: the alert of the cell (loc, dateKey)
alertForDay(loc, dateKey, zone) ==
  LET alertsForLoc == IF isArray(loc.alerts) THEN loc.alerts.items ELSE <<>>
  IN  FindFirst(alertsForLoc,
                [i \in 1..Len(alertsForLoc) |-> alertAppliesOnDate(alertsForLoc[i], dateKey, zone)])

\* renderWeatherTable, the revision with start/end alerts: the alert of the cell;
\* find throws when it comes to a null alert
alertForDayStartEnd(location, dateStr, zone) ==
  LET alerts == IF falsy(location.alerts) THEN <<>> ELSE location.alerts.items
      hit == [i \in 1..Len(alerts) |->
                ~ isNullish(alerts[i]) /\ alertAppliesOnDateStartEnd(alerts[i], dateStr, zone)]
  IN  IF \E i \in 1..Len(alerts) : isNullish(alerts[i]) /\ \A j \in 1..(i - 1) : ~ hit[j]
      THEN Throw
      ELSE FindFirst(alerts, hit)

\* renderWeatherTable of js/ui.js: the alert of every cell of a location
cellAlert(location) ==
  IF ~ falsy(location.alerts) /\ Len(location.alerts.items) > 0
  THEN location.alerts.items[1]
  ELSE Undefined

\* loc && (loc.city || loc.state || loc.label)
isActiveLocation(loc) ==
  ~ falsy(loc) /\ ~ falsy(FirstTruthy(<<loc.city, loc.state, loc.label>>))

\* the text of the header cell of a location: "city, state", else the label, else ""
headerLabel(loc) ==
  IF ~ falsy(loc.city) /\ ~ falsy(loc.state) THEN Str(loc.city.s \o <<",", " ">> \o loc.state.s)
  ELSE IF falsy(loc.label) THEN Str(<<>>)
  ELSE loc.label

\* the body cell of a location and a date row: the location whose data the cell shows,
\* its summary of the day, its first period of the day and its alert of the day
tableCell(loc, dateKey, zone) ==
  IF falsy(loc) THEN [k |-> "emptyCell"]
  ELSE LET dailyMap == normalizeDailyMap(loc.dailyData)
           periods == IF isArray(loc.periods) THEN loc.periods.items ELSE <<>>
       IN  [ k |-> "cell",
             loc |-> loc,
             day |-> IF dateKey \in DOMAIN dailyMap.map THEN dailyMap.map[dateKey] ELSE Null,
             period |-> LET hit == FindFirst(periods,
                                     [i \in 1..Len(periods) |->
                                        formatDateKey(FirstTruthy(<<periods[i].startTime, periods[i].start,
                                                                    periods[i].date>>), zone) = dateKey])
                        IN  IF hit = Undefined THEN Null ELSE hit,
             alert |-> alertForDay(loc, dateKey, zone) ]

\* renderWeatherTable(locationsInput): the header cells of the locations and, for every
\* date row, the cells of the row; a message when there is no date to show
renderWeatherTable(locationsInput, clock, zone) ==
  LET slots == [i \in 1..3 |-> IF i <= Len(locationsInput) /\ ~ falsy(locationsInput[i])
                                   THEN locationsInput[i] ELSE Null]
      dateKeys == deriveDateKeys(slots, clock, zone)
      activeLocations == SelectSeq(slots, isActiveLocation)
  IN  IF Len(dateKeys) = 0 THEN [k |-> "noData"]
      ELSE [ k |-> "table",
             header |-> [i \in 1..Len(activeLocations) |-> headerLabel(activeLocations[i])],
             rows |-> [r \in 1..Len(dateKeys) |->
                         [col \in 1..Len(activeLocations) |-> tableCell(slots[col], dateKeys[r], zone)]] ]

-----------------------------------------------------------------------------
(* The values the core functions are called with *)

\* the longest period list a call is given
MaxPeriods == 2

\* the timestamp y-mo-dThh:mi:ss+off:00 as the API writes it (off in hours)
ISO(y, mo, d, hh, mi, ss, off) ==
  padStart4(NumToStr(y)) \o <<"-">> \o padStart2(NumToStr(mo)) \o <<"-">> \o padStart2(NumToStr(d))
  \o <<"T">> \o padStart2(NumToStr(hh)) \o <<":">> \o padStart2(NumToStr(mi))
  \o <<":">> \o padStart2(NumToStr(ss))
  \o <<IF off < 0 THEN "-" ELSE "+">> \o padStart2(NumToStr(IF off < 0 THEN - off ELSE off))
  \o <<":", "0", "0">>

\* the local zones the page may run in: UTC-7, UTC-4 and UTC
Zones == {-25200, -14400, 0}

Period(start, temp, wind, rh, app) ==
  [ k |-> "obj", startTime |-> Str(start), start |-> Undefined, date |-> Undefined,
    temperature |-> temp, windSpeed |-> wind,
    relativeHumidity |-> rh, apparentTemperature |-> app ]

Mph5 == Str(<<"5", " ", "m", "p", "h">>)
Mph5to10 == Str(<<"5", " ", "t", "o", " ", "1", "0", " ", "m", "p", "h">>)
Mph10 == Str(<<"1", "0", " ", "m", "p", "h">>)
Mph3 == Str(<<"3", " ", "m", "p", "h">>)
DegCUnit == Str(<<"w", "m", "o", "U", "n", "i", "t", ":", "d", "e", "g", "C">>)
HumidityOf(n) == [k |-> "obj", value |-> Num(Deg(n))]

\* 08:00 on June 1 (UTC-4): 72 F, 5 mph, 50 percent
PeriodMorning == Period(ISO(2024, 6, 1, 8, 0, 0, -4), Num(Deg(72)), Mph5, HumidityOf(50), Undefined)
\* 23:00 on June 1 (UTC-4), June 2 in UTC: 45 F in a 5 to 10 mph wind
PeriodLateCold == Period(ISO(2024, 6, 1, 23, 0, 0, -4), Num(Deg(45)), Mph5to10, Undefined, Undefined)
\* 00:00 on June 2 (UTC-4): 90 F at 90 percent
PeriodMidnightHot == Period(ISO(2024, 6, 2, 0, 0, 0, -4), Num(Deg(90)), Str(<<>>), HumidityOf(90), Undefined)
\* 18:00 on June 1 (UTC-7), June 2 in UTC: 95 F with a reported apparent temperature of 21 C
PeriodWest == Period(ISO(2024, 6, 1, 18, 0, 0, -7), Num(Deg(95)), Mph10, Undefined,
                     [k |-> "obj", value |-> Num(Deg(21)), unitCode |-> DegCUnit])
\* periods without a usable temperature: null, missing, not a number
PeriodNullTemp == Period(ISO(2024, 6, 1, 12, 0, 0, -4), Null, Mph5, Undefined, Undefined)
PeriodNoTemp == Period(ISO(2024, 6, 1, 13, 0, 0, -4), Undefined, Mph5, Undefined, Undefined)
PeriodTextTemp == Period(ISO(2024, 6, 2, 6, 0, 0, -4), Str(<<"n", "/", "a">>), Mph5, Undefined, Undefined)
\* 01:00 on June 2 (UTC-4): 64.5 F
PeriodHalf == Period(ISO(2024, 6, 2, 1, 0, 0, -4), Num(64500), Mph3, Undefined, Undefined)

\* 12:00 on June 1 (UTC-4): 70 F, the wind speed given as the number 5
PeriodNumberWind == Period(ISO(2024, 6, 1, 12, 0, 0, -4), Num(Deg(70)), Num(Deg(5)), Undefined, Undefined)

\* 14:00 on June 1 (UTC-4): 95 F, the humidity given as the number 30
PeriodBareHumidity == Period(ISO(2024, 6, 1, 14, 0, 0, -4), Num(Deg(95)), Str(<<>>), Num(Deg(30)), Undefined)

\* 15:00 on June 1 (UTC-4): 75 F with a reported apparent temperature given as the number 78
PeriodApparentNumber == Period(ISO(2024, 6, 1, 15, 0, 0, -4), Num(Deg(75)), Mph5, Undefined, Num(Deg(78)))
\* 16:00 on June 2 (UTC-4): 75 F with a reported apparent temperature of 80 without a unit code
PeriodApparentNoUnit == Period(ISO(2024, 6, 2, 16, 0, 0, -4), Num(Deg(75)), Mph5, Undefined,
                               [k |-> "obj", value |-> Num(Deg(80)), unitCode |-> Undefined])
\* 17:00 on June 2 (UTC-4): 60 F with an apparent temperature whose value is null
PeriodApparentNull == Period(ISO(2024, 6, 2, 17, 0, 0, -4), Num(Deg(60)), Mph5, Undefined,
                             [k |-> "obj", value |-> Null, unitCode |-> DegCUnit])

\* the entries of a period list: periods, and null
PeriodInputs ==
  { PeriodMorning, PeriodLateCold, PeriodMidnightHot, PeriodWest,
    PeriodNullTemp, PeriodNoTemp, PeriodTextTemp, PeriodHalf, PeriodNumberWind,
    PeriodBareHumidity, PeriodApparentNumber, PeriodApparentNoUnit, PeriodApparentNull, Null }

SeqsUpTo(S, n) == UNION { [1..m -> S] : m \in 0..n }

\* the tempF arguments: numbers, and values that are not finite numbers
TempInputs ==
  { Num(Deg(t)) : t \in {-10, 32, 50, 51, 65, 79, 80, 85, 87, 88, 95} }
  \cup { Num(50001), Num(79999), Num(87001) }
  \cup { Undefined, Null, NaN, Infinity, MinusInfinity, Str(<<>>), Str(<<"n", "/", "a">>),
         Str(<<"7", "2">>) }
WindInputs == { Num(0), Num(2999), Num(Deg(3)), Num(3001), Num(7500), Num(Deg(20)), Num(Deg(45)) }
HumidityInputs ==
  { Num(- Deg(5)), Num(0), Num(39999), Num(Deg(40)), Num(Deg(50)), Num(Deg(85)), Num(85001),
    Num(Deg(90)), Num(Deg(100)), Num(Deg(150)),
    Undefined, Null, NaN, Infinity, Str(<<"9", "0">>) }

Pending == [k |-> "pending"]

\* no location was ever looked up
AppIdle ==
  /\ locations = [i \in 0..2 |-> Null]
  /\ lookups = <<>>
  /\ rendered = <<>>
  /\ stored = <<>>
  /\ loading = FALSE
  /\ cookie = <<>>

appVars == <<locations, lookups, rendered, stored, loading, cookie>>

-----------------------------------------------------------------------------
(* calculateRealFeel called on its own *)

\* the arguments of calculateHeatIndex called on its own: finite temperatures in and
\* around the bands of the two adjustments, and humidities that are numbers or missing
HeatTempInputs == { Num(Deg(t)) : t \in {79, 80, 87, 88, 95, 100, 112, 113} } \cup { Num(79999) }
HeatHumidityInputs ==
  { h \in HumidityInputs : h.k = "num" \/ isNullish(h) }
  \cup { Num(Deg(12)), Num(12999), Num(Deg(13)) }

InitRealFeel ==
  /\ tz = 0 /\ now = 0 /\ AppIdle
  /\ call \in { [fn |-> "calculateRealFeel", tempF |-> t, windSpeedMph |-> w, humidityPct |-> h] :
                t \in TempInputs, w \in WindInputs, h \in HumidityInputs }
       \cup { [fn |-> "calculateHeatIndex", tempF |-> t, humidityPct |-> h] :
               t \in HeatTempInputs, h \in HeatHumidityInputs }
  /\ ret = Pending

CallRealFeel ==
  /\ call.fn = "calculateRealFeel" /\ ret = Pending
  /\ ret' = [ k |-> "ret",
              val |-> calculateRealFeel(call.tempF, call.windSpeedMph, call.humidityPct),
              via |-> realFeelBranch(call.tempF, call.windSpeedMph, call.humidityPct) ]
  /\ UNCHANGED <<tz, now, call, appVars>>

CallHeatIndex ==
  /\ call.fn = "calculateHeatIndex" /\ ret = Pending
  /\ ret' = [k |-> "ret", val |-> Num(calculateHeatIndex(call.tempF.v, call.humidityPct)), via |-> "heatIndex"]
  /\ UNCHANGED <<tz, now, call, appVars>>

NextRealFeel == CallRealFeel \/ CallHeatIndex

SpecRealFeel == InitRealFeel /\ [][NextRealFeel]_vars

-----------------------------------------------------------------------------
(* getDailyRealFeelRange called on its own, in both of its revisions *)

InitDaily ==
  /\ tz \in Zones /\ now = 0 /\ AppIdle
  /\ call \in { [fn |-> "getDailyRealFeelRange", periods |-> ps] :
                ps \in SeqsUpTo(PeriodInputs, MaxPeriods) }
  /\ ret = Pending

CallDailyRange ==
  /\ call.fn = "getDailyRealFeelRange" /\ ret = Pending
  /\ ret' = [k |-> "ret", rev |-> "split", val |-> getDailyRealFeelRange(call.periods)]
  /\ UNCHANGED <<tz, now, call, appVars>>

CallDailyRangeLocal ==
  /\ call.fn = "getDailyRealFeelRange" /\ ret = Pending
  /\ ret' = [k |-> "ret", rev |-> "local", val |-> getDailyRealFeelRangeLocal(call.periods, tz)]
  /\ UNCHANGED <<tz, now, call, appVars>>

NextDaily == CallDailyRange \/ CallDailyRangeLocal

SpecDaily == InitDaily /\ [][NextDaily]_vars

-----------------------------------------------------------------------------
(* The alignment functions called on their own *)

\* the longest alert list of a location
MaxAlerts == 2

May30 == KeyOfYMD(<<2024, 5, 30>>)
May31 == KeyOfYMD(<<2024, 5, 31>>)
Jun01 == KeyOfYMD(<<2024, 6, 1>>)
Jun02 == KeyOfYMD(<<2024, 6, 2>>)
Jun03 == KeyOfYMD(<<2024, 6, 3>>)

DateKeyInputs == {May31, Jun01, Jun02, Jun03}

\* the clock readings: 03:00Z and 16:00Z on June 1, 05:00Z on June 2
ClockInputs ==
  { DaysFromCivil(2024, 6, 1) * 86400 + 3 * 3600,
    DaysFromCivil(2024, 6, 1) * 86400 + 16 * 3600,
    DaysFromCivil(2024, 6, 2) * 86400 + 5 * 3600 }

\* a GeoJSON alert feature with the given bounds
Feature(effective, onset, expires, ends) ==
  [ k |-> "obj", start |-> Undefined, end |-> Undefined,
    properties |-> [ k |-> "obj", effective |-> effective, onset |-> onset, sent |-> Undefined,
                     expires |-> expires, ends |-> ends, event |-> Str(<<"F", "l", "o", "o", "d">>) ] ]

At(mo, d, hh, mi, ss) == Str(ISO(2024, mo, d, hh, mi, ss, -4))

\* 23:00 on June 1 to 02:00 on June 2 (UTC-4)
AlertOvernight == Feature(At(6, 1, 23, 0, 0), Undefined, At(6, 2, 2, 0, 0), Undefined)
\* 10:00 on June 1 to 00:00:00 on June 2 (UTC-4): ends on the first second of June 2
AlertToMidnight == Feature(At(6, 1, 10, 0, 0), Undefined, At(6, 2, 0, 0, 0), Undefined)
\* 23:59:59 on June 2 to 05:00 on June 3 (UTC-4): starts on the last second of June 2
AlertFromLastSecond == Feature(At(6, 2, 23, 59, 59), Undefined, At(6, 3, 5, 0, 0), Undefined)
\* 12:00 on May 31 to 12:00 on June 3 (UTC-4)
AlertLong == Feature(At(5, 31, 12, 0, 0), Undefined, At(6, 3, 12, 0, 0), Undefined)
\* bounds given as onset and ends: 09:00 to 17:00 on June 2 (UTC-4)
AlertOnsetEnds == Feature(Undefined, At(6, 2, 9, 0, 0), Undefined, At(6, 2, 17, 0, 0))
\* the end before the start
AlertInverted == Feature(At(6, 2, 12, 0, 0), Undefined, At(6, 1, 12, 0, 0), Undefined)
\* a start only, no bound at all, no properties object
AlertStartOnly == Feature(At(6, 2, 9, 0, 0), Undefined, Undefined, Undefined)
AlertUnbounded == Feature(Undefined, Undefined, Undefined, Undefined)
AlertBare == [k |-> "obj", start |-> Undefined, end |-> Undefined, properties |-> Undefined]

\* effective at 12:00 on May 31 and expiring at 12:00 on June 3, the event itself from
\* 09:00 to 17:00 on June 2 (UTC-4)
AlertIssuedAhead == Feature(At(5, 31, 12, 0, 0), At(6, 2, 9, 0, 0), At(6, 3, 12, 0, 0), At(6, 2, 17, 0, 0))

FeatureInputs ==
  { AlertOvernight, AlertToMidnight, AlertFromLastSecond, AlertLong, AlertOnsetEnds,
    AlertInverted, AlertStartOnly, AlertUnbounded, AlertBare, AlertIssuedAhead }

\* the alerts a location's list is made of
ListedAlerts == { AlertOvernight, AlertOnsetEnds, AlertLong }

Summary(h, l) ==
  [ realFeelHigh |-> Num(Deg(h)), realFeelLow |-> Num(Deg(l)), high |-> Num(Deg(h)), low |-> Num(Deg(l)) ]

\* a summary map with the given keys
DailyMap(keys) == [k |-> "obj", map |-> [date \in keys |-> Summary(80, 60)]]

\* a location slot as renderWeatherTable reads it
Slot(label, dailyData, periods, alerts) ==
  [ k |-> "obj", label |-> label, dailyData |-> dailyData, periods |-> periods, alerts |-> alerts ]

NYC == Str(<<"N", "Y", "C">>)

\* slots with a summary map and no periods field
SlotMayJune == Slot(NYC, DailyMap({May30, Jun01}), Undefined, Arr(<<>>))
SlotJune == Slot(NYC, DailyMap({Jun01, Jun02}), Undefined, Arr(<<>>))
SlotNoDays == Slot(NYC, EmptyMap, Undefined, Arr(<<>>))
\* a slot as the app revision that keeps the periods stores it
SlotStored(ps) == Slot(NYC, getDailyRealFeelRange(ps), Arr(ps), Arr(<<>>))
\* a slot with periods and no summary map
SlotPeriodsOnly == Slot(NYC, Undefined, Arr(<<PeriodMorning, PeriodMidnightHot>>), Arr(<<>>))

\* 70 F in a 5 mph wind, without a startTime
PeriodNoStart ==
  [ k |-> "obj", startTime |-> Undefined, start |-> Undefined, date |-> Undefined,
    temperature |-> Num(Deg(70)), windSpeed |-> Mph5,
    relativeHumidity |-> Undefined, apparentTemperature |-> Undefined ]

SlotInputs ==
  { Null, SlotMayJune, SlotJune, SlotNoDays, SlotStored(<<PeriodLateCold>>),
    SlotStored(<<PeriodMorning, PeriodHalf>>), SlotPeriodsOnly,
    SlotStored(<<PeriodMorning, PeriodNoStart>>) }

\* the alert lists of a location: features, or the same alerts normalised
AlertLists(clock, zone) ==
  LET raw == SeqsUpTo(ListedAlerts, MaxAlerts)
  IN  raw \cup { [i \in 1..Len(q) |-> normalizeAlert(q[i], clock, zone)] : q \in raw }

\* a location as a revision of setLocation stores it, with the names geocodeLocation
\* and the forecast gave it
Place(lat, city, state, label) ==
  [ k |-> "obj", lat |-> lat, city |-> city, state |-> state, label |-> label,
    dailyData |-> DailyMap({Jun01, Jun02, Jun03}), periods |-> Undefined, alerts |-> Arr(<<AlertOvernight>>) ]

\* a location with a label only, one with a city and a state, and one without any name
\* (geocodeLocation answered with lat and lon only)
PlaceLabelled == Place(1, Undefined, Undefined, NYC)
PlaceCityState == Place(2, Str(<<"E", "r", "i", "e">>), Str(<<"P", "A">>), Undefined)
PlaceUnnamed == Place(3, Str(<<>>), Str(<<>>), Undefined)

\* what renderWeatherTable is given for a slot
TableSlots == {Null, PlaceLabelled, PlaceCityState, PlaceUnnamed}

InitAlign ==
  /\ tz \in Zones
  /\ now \in ClockInputs
  /\ AppIdle
  /\ call \in
       { [fn |-> "alertAppliesOnDate", alert |-> a, dateKey |-> key] :
           a \in FeatureInputs \cup { normalizeAlert(f, now, tz) : f \in FeatureInputs },
           key \in DateKeyInputs }
       \cup { [fn |-> "deriveDateKeys", locations |-> locs] : locs \in [1..3 -> SlotInputs] }
       \cup { [fn |-> "renderCell", loc |-> Slot(NYC, DailyMap(DateKeyInputs), Undefined, Arr(q)),
               dateKey |-> key] : q \in AlertLists(now, tz), key \in DateKeyInputs }
       \cup { [fn |-> "renderWeatherTable", locationsInput |-> locs] : locs \in [1..3 -> TableSlots] }
  /\ ret = Pending

AlignFrame == UNCHANGED <<tz, now, call, appVars>>

CallAlertAppliesOnDate ==
  /\ call.fn = "alertAppliesOnDate" /\ ret = Pending
  /\ ret' = [k |-> "ret", rev |-> "properties", val |-> alertAppliesOnDate(call.alert, call.dateKey, tz)]
  /\ AlignFrame

CallAlertAppliesOnDateStartEnd ==
  /\ call.fn = "alertAppliesOnDate" /\ ret = Pending
  /\ ret' = [k |-> "ret", rev |-> "startEnd",
             val |-> alertAppliesOnDateStartEnd(call.alert, call.dateKey, tz)]
  /\ AlignFrame

CallDeriveDateKeys ==
  /\ call.fn = "deriveDateKeys" /\ ret = Pending
  /\ ret' = [k |-> "ret", rev |-> "properties", val |-> deriveDateKeys(call.locations, now, tz)]
  /\ AlignFrame

\* the cell of one location and one date row, in the three revisions of renderWeatherTable
RenderCell ==
  /\ call.fn = "renderCell" /\ ret = Pending
  /\ ret' = [k |-> "ret", rev |-> "properties", val |-> alertForDay(call.loc, call.dateKey, tz)]
  /\ AlignFrame

RenderCellStartEnd ==
  /\ call.fn = "renderCell" /\ ret = Pending
  /\ ret' = [k |-> "ret", rev |-> "startEnd", val |-> alertForDayStartEnd(call.loc, call.dateKey, tz)]
  /\ AlignFrame

RenderCellFirstAlert ==
  /\ call.fn = "renderCell" /\ ret = Pending
  /\ ret' = [k |-> "ret", rev |-> "first", val |-> cellAlert(call.loc)]
  /\ AlignFrame

RenderTable ==
  /\ call.fn = "renderWeatherTable" /\ ret = Pending
  /\ ret' = [k |-> "ret", rev |-> "properties", val |-> renderWeatherTable(call.locationsInput, now, tz)]
  /\ AlignFrame

NextAlign ==
  \/ CallAlertAppliesOnDate
  \/ CallAlertAppliesOnDateStartEnd
  \/ CallDeriveDateKeys
  \/ RenderCell
  \/ RenderCellStartEnd
  \/ RenderCellFirstAlert
  \/ RenderTable

SpecAlign == InitAlign /\ [][NextAlign]_vars

-----------------------------------------------------------------------------
(* unnamed/part_001: the app, its location slots and its lookups *)

\* the number of updateLocation calls of a run
MaxLookups == 2

\* appState.maxLocations
maxLocations == 3

SlotIndexes == 0..(maxLocations - 1)

Miami == Str(<<"M", "i", "a", "m", "i">>)
Boston == Str(<<"B", "o", "s", "t", "o", "n">>)

\* what the user has typed into a location input
Queries == {Miami, Boston}

\* the text of the input when the lookup with this id is started: Miami and Boston in
\* turn
QueryOf(id) == IF id % 2 = 1 THEN Miami ELSE Boston

\* the periods the forecast service answers with for a place, and its active alerts
ForecastOf(name) ==
  IF name = Miami THEN <<PeriodMidnightHot, PeriodHalf>> ELSE <<PeriodMorning, PeriodLateCold>>
AlertsOf(name) == IF name = Miami THEN <<AlertOvernight>> ELSE <<>>
\* the active alerts of the county of a place
CountyAlertsOf(name) == IF name = Miami THEN <<AlertLong>> ELSE <<>>

\* what a request of fetchNWSAlerts can end with: the features, or an error
AlertAnswers(features) == {Arr(features), Throw}

\* the point metadata setLocation hands to fetchNWSAlerts: the zone and county of the
\* place, or nothing
PointOf(name) == [k |-> "obj", forecastZone |-> name, county |-> name]

\* Faulty variant of fetchNWSAlerts: without the try blocks, the error of a request is
\* the error of fetchNWSAlerts
fetchNWSAlertsUnguarded(pointJson, zoneAnswer, countyAnswer) ==
  IF isNullish(pointJson) \/ zoneAnswer = Throw \/ countyAnswer = Throw THEN Throw
  ELSE Arr(zoneAnswer.items \o countyAnswer.items)

\* fetchNWSAlerts(lat, lon, { pointJson }): the features of the zone request and of the
\* county request that succeeded; [] when reading pointJson.properties throws
fetchNWSAlerts(pointJson, zoneAnswer, countyAnswer) ==
  IF isNullish(pointJson) THEN Arr(<<>>)
  ELSE Arr((IF zoneAnswer = Throw THEN <<>> ELSE zoneAnswer.items)
           \o (IF countyAnswer = Throw THEN <<>> ELSE countyAnswer.items))

\* The text of the inputs and of the error messages of the page is not part of the
\* state: a lookup carries the query its input held when it was started.

\* an updateLocation call that awaits geocodeLocation; the answers it gets are
\* remembered with the call
NewLookup(id, index, query) ==
  [ id |-> id, index |-> index, query |-> query, pc |-> "geocode", failed |-> FALSE,
    orphaned |-> FALSE,
    locationInfo |-> Undefined, forecast |-> Undefined, alerts |-> Undefined ]

\* the answer of geocodeLocation to a lookup
LocationInfo(id, query) == [k |-> "obj", name |-> query, lat |-> id, lon |-> id]

\* which lookup each part of a slot comes from (0: the part is missing)
Origin(coords, forecast, alerts, dailyData) ==
  [coords |-> coords, forecast |-> forecast, alerts |-> alerts, dailyData |-> dailyData]

\* Faulty variant of enrichedLocation: the location without forecast, alerts and
\* daily data, as in the unfinished object literal of js/app.js
enrichedLocationBare(l, dailyData) ==
  [ k |-> "obj", name |-> l.locationInfo.name, lat |-> l.locationInfo.lat,
    lon |-> l.locationInfo.lon, forecast |-> Undefined, alerts |-> Undefined,
    dailyData |-> Undefined, index |-> l.index,
    origin |-> Origin(l.locationInfo.lat, 0, 0, 0) ]

\* the object setLocation stores: { ...locationInfo, forecast, forecastZone, alerts,
\* dailyData, index }
enrichedLocation(l, dailyData) ==
  [ k |-> "obj", name |-> l.locationInfo.name, lat |-> l.locationInfo.lat,
    lon |-> l.locationInfo.lon, forecast |-> l.forecast, alerts |-> l.alerts,
    dailyData |-> dailyData, index |-> l.index,
    origin |-> Origin(l.locationInfo.lat, l.forecast.by, l.alerts.by, l.id) ]

\* Faulty variant of storeLocation: the value is put into the first empty slot, or
\* into slot index when none is empty
storeLocationFirstEmpty(locs, index, value) ==
  IF \E i \in DOMAIN locs : locs[i] = Null
  THEN [locs EXCEPT ![CHOOSE i \in DOMAIN locs : locs[i] = Null /\ \A j \in DOMAIN locs : locs[j] = Null => i <= j] = value]
  ELSE [locs EXCEPT ![index] = value]

\* appState.locations[index] = value
storeLocation(locs, index, value) == [locs EXCEPT ![index] = value]

\* appState.locations.filter(l => l !== null)
NonNull(locs) ==
  LET F[i \in 0..maxLocations] ==
        IF i = 0 THEN <<>>
        ELSE IF locs[i - 1] = Null THEN F[i - 1] ELSE Append(F[i - 1], locs[i - 1])
  IN  F[maxLocations]

\* the page is loaded at 16:00Z on June 1 by a browser in UTC-4 (no step of a lookup
\* reads the clock or the zone)
PageLoad == DaysFromCivil(2024, 6, 1) * 86400 + 16 * 3600

\* saveLocationsToCookie(): the names of the slots that are not empty
saveLocationsToCookie(locs) == [i \in 1..Len(NonNull(locs)) |-> NonNull(locs)[i].name]

InitApp ==
  /\ tz = -14400
  /\ now = PageLoad
  /\ call = [fn |-> "app"]
  /\ ret = Pending
  /\ AppIdle

AppFrame == UNCHANGED <<tz, now, call, ret>>

\* lookup n moves to position pc with the fields of upd changed
Advance(n, upd) == lookups' = [lookups EXCEPT ![n] = upd]

\* updateLocation(index) up to its first await: the input is not empty, the overlay is
\* shown, geocodeLocation is called
UpdateLocation(index, query) ==
  /\ call.fn = "app"
  /\ Len(lookups) < MaxLookups
  /\ loading' = TRUE
  /\ lookups' = Append(lookups, NewLookup(Len(lookups) + 1, index, query))
  /\ UNCHANGED <<locations, rendered, stored, cookie>>
  /\ AppFrame

\* geocodeLocation answers: setLocation starts and calls fetchNWSForecast
GeocodeResolves(n) ==
  /\ lookups[n].pc = "geocode"
  /\ Advance(n, [lookups[n] EXCEPT !.pc = "forecast",
                                   !.locationInfo = LocationInfo(n, lookups[n].query)])
  /\ UNCHANGED <<locations, rendered, stored, loading, cookie>>
  /\ AppFrame

\* geocodeLocation fails: catch (showError), finally (hideLoading)
GeocodeRejects(n) ==
  /\ lookups[n].pc = "geocode"
  /\ Advance(n, [lookups[n] EXCEPT !.pc = "done", !.failed = TRUE])
  /\ loading' = FALSE
  /\ UNCHANGED <<locations, rendered, stored, cookie>>
  /\ AppFrame

\* fetchNWSForecast answers: setLocation calls fetchNWSAlerts
ForecastResolves(n) ==
  /\ lookups[n].pc = "forecast"
  /\ Advance(n, [lookups[n] EXCEPT !.pc = "alerts",
                                   !.forecast = [k |-> "arr", by |-> n,
                                                 items |-> ForecastOf(lookups[n].query)]])
  /\ UNCHANGED <<locations, rendered, stored, loading, cookie>>
  /\ AppFrame

\* Faulty variant of ForecastRejects: the slot of the lookup is emptied and the table
\* rendered again when the forecast fails
ForecastRejectsClearingSlot(n) ==
  /\ lookups[n].pc = "forecast"
  /\ Advance(n, [lookups[n] EXCEPT !.pc = "failed", !.failed = TRUE])
  /\ locations' = [locations EXCEPT ![lookups[n].index] = Null]
  /\ rendered' = NonNull(locations')
  /\ UNCHANGED <<stored, loading, cookie>>
  /\ AppFrame

\* fetchNWSForecast fails (a request fails, or the forecast is not valid): setLocation
\* ends with the error
ForecastRejects(n) ==
  /\ lookups[n].pc = "forecast"
  /\ Advance(n, [lookups[n] EXCEPT !.pc = "failed", !.failed = TRUE])
  /\ UNCHANGED <<locations, rendered, stored, loading, cookie>>
  /\ AppFrame

\* fetchNWSAlerts answers, its requests having ended as given: setLocation computes the
\* daily data, stores the slot, renders the table and saves the names (or ends with
\* the error fetchNWSAlerts or getDailyRealFeelRange throws)
AlertsResolve(n, pointJson, zoneAnswer, countyAnswer) ==
  /\ lookups[n].pc = "alerts"
  /\ LET alerts == fetchNWSAlerts(pointJson, zoneAnswer, countyAnswer)
         l == [lookups[n] EXCEPT
                 !.alerts = IF alerts = Throw THEN Undefined
                            ELSE [k |-> "arr", by |-> n, items |-> alerts.items]]
         dailyData == getDailyRealFeelRange(l.forecast.items)
     IN  IF alerts = Throw \/ dailyData = Throw
         THEN /\ Advance(n, [l EXCEPT !.pc = "failed", !.failed = TRUE])
              /\ UNCHANGED <<locations, rendered, stored, cookie>>
         ELSE /\ Advance(n, [l EXCEPT !.pc = "stored"])
              /\ locations' = storeLocation(locations, l.index, enrichedLocation(l, dailyData))
              /\ rendered' = NonNull(locations')
              /\ cookie' = saveLocationsToCookie(locations')
              /\ stored' = Append(stored, n)
  /\ UNCHANGED loading
  /\ AppFrame

\* Faulty variant of UpdateLocationEnds: hideLoading at the end of the try block, not
\* in a finally block
UpdateLocationEndsNoFinally(n) ==
  /\ lookups[n].pc \in {"stored", "failed"}
  /\ Advance(n, [lookups[n] EXCEPT !.pc = "done"])
  /\ loading' = IF lookups[n].pc = "failed" THEN loading ELSE FALSE
  /\ UNCHANGED <<locations, rendered, stored, cookie>>
  /\ AppFrame

\* updateLocation resumes after setLocation: the input is given the canonical name,
\* or the error is shown; finally hideLoading
UpdateLocationEnds(n) ==
  /\ lookups[n].pc \in {"stored", "failed"}
  /\ Advance(n, [lookups[n] EXCEPT !.pc = "done"])
  /\ loading' = FALSE
  /\ UNCHANGED <<locations, rendered, stored, cookie>>
  /\ AppFrame

Next ==
  \/ \E index \in SlotIndexes : UpdateLocation(index, QueryOf(Len(lookups) + 1))
  \/ \E n \in 1..Len(lookups) :
       \/ GeocodeResolves(n)
       \/ GeocodeRejects(n)
       \/ ForecastResolves(n)
       \/ ForecastRejects(n)
       \/ \E zoneAnswer \in AlertAnswers(AlertsOf(lookups[n].query)),
             countyAnswer \in AlertAnswers(CountyAlertsOf(lookups[n].query)) :
            AlertsResolve(n, PointOf(lookups[n].query), zoneAnswer, countyAnswer)
       \/ AlertsResolve(n, Undefined, Throw, Throw)
       \/ UpdateLocationEnds(n)

Spec == InitApp /\ [][Next]_vars

-----------------------------------------------------------------------------
(* unnamed/part_005: the app with removeLocation *)

\* removeLocation(index): the slot is emptied and the table rendered again. A lookup
\* for the slot that has not stored yet goes on; it is marked as started before the
\* removal.
RemoveLocation(index) ==
  /\ call.fn = "app"
  /\ locations' = storeLocation(locations, index, Null)
  /\ rendered' = NonNull(locations')
  /\ lookups' = [n \in 1..Len(lookups) |->
                   IF lookups[n].index = index /\ lookups[n].pc \in {"geocode", "forecast", "alerts"}
                   THEN [lookups[n] EXCEPT !.orphaned = TRUE]
                   ELSE lookups[n]]
  /\ UNCHANGED <<stored, loading, cookie>>
  /\ AppFrame

NextRemove ==
  \/ Next
  \/ \E index \in SlotIndexes : RemoveLocation(index)

SpecRemove == InitApp /\ [][NextRemove]_vars

-----------------------------------------------------------------------------
(* Properties of calculateRealFeel *)

\* C3: calculateRealFeel returns tempF unchanged for every finite input outside both
\* bands (50 < T < 80; T <= 50 with W < 3; T >= 80 with RH < 40); the wind-chill
\* return is taken only when T <= 50 and W >= 3, the heat-index return only when
\* T >= 80 and RH >= 40, so the two never apply to the same input.
RealFeelUnchangedOutsideBands ==
  (call.fn = "calculateRealFeel" /\ ret # Pending
   /\ isFinite(call.tempF) /\ isFinite(call.windSpeedMph) /\ isFinite(call.humidityPct)) =>
    LET T == call.tempF.v
        W == call.windSpeedMph.v
        RH == call.humidityPct.v
    IN  /\ (T > Deg(50) /\ T < Deg(80)) => ret.val = Num(T)
        /\ (T <= Deg(50) /\ W < Deg(3)) => ret.val = Num(T)
        /\ (T >= Deg(80) /\ RH < Deg(40)) => ret.val = Num(T)
        /\ ret.via = "windChill" => (T <= Deg(50) /\ W >= Deg(3))
        /\ ret.via = "heatIndex" => (T >= Deg(80) /\ RH >= Deg(40))
        /\ ret.via \in {"windChill", "heatIndex", "temp"}
        /\ ret.via = "temp" => ret.val = Num(T)

\* calculateRealFeel has returned 95 for 95 F at a humidity just below 40 percent and
\* a wind of 20 mph
RealFeelHotDryReturned ==
  /\ call.fn = "calculateRealFeel" /\ ret # Pending
  /\ call.tempF = Num(Deg(95)) /\ call.humidityPct = Num(39999)
  /\ call.windSpeedMph = Num(Deg(20))
  /\ ret.val = Num(Deg(95)) /\ ret.via = "temp"

-----------------------------------------------------------------------------
(* Properties of getDailyRealFeelRange *)

\* the instant a well-formed timestamp names
InstantOf(s) == WallSeconds(s) - OffsetSeconds(s)

\* the date key of the day an instant falls on in the zone with the given offset
KeyInZone(t, offset) == KeyOfYMD(CivilFromDays((t + offset) \div 86400))

\* the date of a timestamp in the zone the timestamp itself names, and in UTC
OwnZoneKey(s) == KeyInZone(InstantOf(s), OffsetSeconds(s))
UtcKey(s) == KeyInZone(InstantOf(s), 0)

DailyReturned == call.fn = "getDailyRealFeelRange" /\ ret # Pending

\* getDailyRealFeelRange has returned an object
DailyValue == DailyReturned /\ ret.val.k = "obj"

Nearest(x) == CHOOSE r \in { Deg(n) : n \in -100..400 } : r - 500 <= x /\ x < r + 500

SetMax(S) == CHOOSE x \in S : \A y \in S : x >= y
SetMin(S) == CHOOSE x \in S : \A y \in S : x <= y

\* the date key a revision gives a period
KeyFor(rev, p) ==
  IF rev = "split" THEN OwnZoneKey(p.startTime.s) ELSE KeyInZone(InstantOf(p.startTime.s), tz)

\* the temperatures JavaScript reads as finite numbers: a number is itself, null is 0
NumericTemps(ps, idx) ==
  { ps[i].temperature.v : i \in { j \in idx : ps[j].temperature.k = "num" } }
  \cup { 0 : i \in { j \in idx : ps[j].temperature.k = "null" } }

\* the finite RealFeel values of the periods idx
FiniteFeels(ps, idx) ==
  { periodRealFeel(ps[i]).v : i \in { j \in idx : isFinite(periodRealFeel(ps[j])) } }

RoundedOrNull(S, ext(_)) == IF S = {} THEN Null ELSE Num(Nearest(ext(S)))

\* C5: for every day key of the result, high and low are the rounded maximum and
\* minimum of the finite temperatures of that day's periods, and realFeelHigh and
\* realFeelLow the rounded maximum and minimum of that day's RealFeel values, taken
\* from the RealFeel series alone; the extremes are taken first and rounded once.
DailyAggregation ==
  DailyValue =>
    \A date \in DOMAIN ret.val.map :
      LET ps == call.periods
          idx == { i \in 1..Len(ps) : KeyFor(ret.rev, ps[i]) = date }
          d == ret.val.map[date]
      IN  /\ d.high = RoundedOrNull(NumericTemps(ps, idx), SetMax)
          /\ d.low = RoundedOrNull(NumericTemps(ps, idx), SetMin)
          /\ d.realFeelHigh = RoundedOrNull(FiniteFeels(ps, idx), SetMax)
          /\ d.realFeelLow = RoundedOrNull(FiniteFeels(ps, idx), SetMin)

\* June 2 was summarised from 90 F at 90 percent (RealFeel 121.9) and 64.5 F: the
\* RealFeel extremes are not the temperature extremes
DayWithDistinctExtremes ==
  /\ DailyReturned /\ ret.rev = "split"
  /\ call.periods = <<PeriodMidnightHot, PeriodHalf>>
  /\ ret.val.map[Jun02] = [ high |-> Num(Deg(90)), low |-> Num(Deg(65)),
                            realFeelHigh |-> Num(Deg(122)), realFeelLow |-> Num(Deg(65)) ]

\* the periods of a list whose temperature is a finite number
WithUsableTemperature(ps) == SelectSeq(ps, LAMBDA p : p.temperature.k = "num")

\* C10: a period whose temperature is missing, null, non-numeric or not finite adds
\* nothing to any day's high or low: every day's high and low are those of the list
\* without such periods (null when no period is left for the day).
BadTemperatureAddsNothing ==
  (DailyValue /\ ret.rev = "split") =>
    LET good == getDailyRealFeelRange(WithUsableTemperature(call.periods)).map
    IN  \A date \in DOMAIN ret.val.map :
          /\ ret.val.map[date].high = (IF date \in DOMAIN good THEN good[date].high ELSE Null)
          /\ ret.val.map[date].low = (IF date \in DOMAIN good THEN good[date].low ELSE Null)

-----------------------------------------------------------------------------
(* Properties of the alignment layer *)

AppliesReturned == call.fn = "alertAppliesOnDate" /\ ret # Pending

\* the civil date a well-formed date key names
YMDOfKey(key) == <<NumAt(key, 1, 4), NumAt(key, 6, 7), NumAt(key, 9, 10)>>

\* the first and the last second of the day a key names, in the zone at an offset
FirstSecond(key, offset) ==
  DaysFromCivil(YMDOfKey(key)[1], YMDOfKey(key)[2], YMDOfKey(key)[3]) * 86400 - offset
LastSecond(key, offset) == FirstSecond(key, offset) + 86399

Present(x) == x.k = "str"

\* the start and end timestamps of a feature
StartStamp(p) == IF Present(p.effective) THEN p.effective ELSE IF Present(p.onset) THEN p.onset ELSE p.sent
EndStamp(p) == IF Present(p.expires) THEN p.expires ELSE p.ends

\* the alert of the call has a start and an end in the form its revision reads
HasBothBounds(alert, rev) ==
  IF rev = "properties"
  THEN /\ alert.properties.k = "obj"
       /\ Present(StartStamp(alert.properties)) /\ Present(EndStamp(alert.properties))
  ELSE alert.start.k = "date" /\ alert.end.k = "date"

AlertStart(alert, rev) ==
  IF rev = "properties" THEN InstantOf(StartStamp(alert.properties).s) ELSE alert.start.t
AlertEnd(alert, rev) ==
  IF rev = "properties" THEN InstantOf(EndStamp(alert.properties).s) ELSE alert.end.t

\* C6: for an alert with a start and an end, alertAppliesOnDate(alert, dayKey) is true
\* if and only if dayStart <= alertEnd and dayEnd >= alertStart, where dayStart and
\* dayEnd are the local midnight and the local 23:59:59 of dayKey; for an alert whose
\* start is not after its end that is: the two closed intervals share an instant.
AlertAppliesIffOverlap ==
  (AppliesReturned /\ HasBothBounds(call.alert, ret.rev)) =>
    LET dayStart == FirstSecond(call.dateKey, tz)
        dayEnd == LastSecond(call.dateKey, tz)
        alertStart == AlertStart(call.alert, ret.rev)
        alertEnd == AlertEnd(call.alert, ret.rev)
    IN  /\ ret.val = (dayStart <= alertEnd /\ dayEnd >= alertStart)
        /\ alertStart <= alertEnd =>
             (ret.val = (Max(dayStart, alertStart) <= Min(dayEnd, alertEnd)))

\* an alert that ends on the very first second of June 2 (UTC-4) was found to apply
\* on June 2 by a page running in UTC-4
AlertTouchingMidnightApplies ==
  /\ AppliesReturned /\ ret.rev = "properties" /\ tz = -14400
  /\ call.alert = AlertToMidnight /\ call.dateKey = Jun02
  /\ ret.val = TRUE

\* C7: the alert from 2024-06-01T23:00:00-04:00 to 2024-06-02T02:00:00-04:00 applies on
\* 2024-06-01 and on 2024-06-02 and not on 2024-06-03; in general an alert applies on
\* exactly the days from the local date of its start through the local date of its end.
AlertMarksEveryDayItTouches ==
  (AppliesReturned /\ ret.rev = "properties" /\ HasBothBounds(call.alert, "properties")
   /\ AlertStart(call.alert, "properties") <= AlertEnd(call.alert, "properties")) =>
    LET p == call.alert.properties
        firstDay == OwnZoneKey(StartStamp(p).s)
        lastDay == OwnZoneKey(EndStamp(p).s)
    IN  /\ ret.val = (~ StrLess(call.dateKey, firstDay) /\ ~ StrLess(lastDay, call.dateKey))
        /\ call.alert = AlertOvernight =>
             ret.val = (call.dateKey \in {Jun01, Jun02})

DeriveReturned == call.fn = "deriveDateKeys" /\ ret # Pending

\* the slot has a summary map
HasSummaryMap(loc) == loc.k = "obj" /\ loc.dailyData.k = "obj"

\* the keys of the summary maps of a list of slots, and the keys of the periods of the
\* slots without a summary map
SummaryKeys(locs) ==
  UNION { DOMAIN loc.dailyData.map : loc \in { l \in Elems(locs) : HasSummaryMap(l) } }
FallbackKeys(locs, clock, zone) ==
  UNION { { KeyInZone(InstantOf(q.startTime.s), zone) : q \in Elems(loc.periods.items) } :
          loc \in { l \in Elems(locs) : l.k = "obj" /\ ~ HasSummaryMap(l) /\ l.periods.k = "arr" } }

StrictlyAscending(q) == \A i \in 1..(Len(q) - 1) : StrLess(q[i], q[i + 1])

\* C8: deriveDateKeys returns exactly the union of the day keys of the slots' summary
\* maps (with the keys of the periods of a slot that has no summary map), restricted to
\* keys >= today's local key, strictly ascending and without duplicates; for the maps
\* {2024-05-30, 2024-06-01}, {2024-06-01, 2024-06-02}, {} and today = 2024-06-01 it
\* returns [2024-06-01, 2024-06-02]; an empty slot removes no row.
DateKeysAreTheUnionFromToday ==
  DeriveReturned =>
    LET today == KeyInZone(now, tz)
        all == SummaryKeys(call.locations) \cup FallbackKeys(call.locations, now, tz)
    IN  /\ Elems(ret.val) = { key \in all : ~ StrLess(key, today) }
        /\ StrictlyAscending(ret.val)
        /\ (call.locations = <<SlotMayJune, SlotJune, SlotNoDays>> /\ today = Jun01) =>
             ret.val = <<Jun01, Jun02>>

CellReturned == call.fn = "renderCell" /\ ret # Pending

\* alertAppliesOnDay for the alert objects of a revision; the revision that has no
\* such function is judged by the form of the alert
AppliesOnDay(alert, key, rev) ==
  IF rev = "properties" \/ (rev = "first" /\ alert.properties.k = "obj")
  THEN alertAppliesOnDate(alert, key, tz)
  ELSE alertAppliesOnDateStartEnd(alert, key, tz)

\* C9: the alert shown in the cell of a location and a day is the first alert of the
\* location's list for which alertAppliesOnDay(alert, day) holds, and no alert when
\* none of the list applies on that day.
CellShowsFirstApplicableAlert ==
  CellReturned =>
    LET items == call.loc.alerts.items
        hits == { i \in 1..Len(items) : AppliesOnDay(items[i], call.dateKey, ret.rev) }
    IN  ret.val = (IF hits = {} THEN Undefined
                   ELSE items[CHOOSE i \in hits : \A j \in hits : i <= j])

-----------------------------------------------------------------------------
(* Properties of the app *)

\* the lookups that were started for slot index
LookupsFor(index) == { n \in 1..Len(lookups) : lookups[n].index = index }

\* the position of lookup n in the order of the stores (0: it has not stored)
StoredAt(n) == IF \E i \in 1..Len(stored) : stored[i] = n
               THEN CHOOSE i \in 1..Len(stored) : stored[i] = n ELSE 0

\* C1: of two lookups for the same slot that are in flight together, the one started
\* earlier never overwrites the slot once the one started later has stored its result:
\* the stores to a slot happen in the order the lookups were started, and when both are
\* complete the slot holds the data of the lookup started later.
StaleLookupNeverOverwrites ==
  call.fn = "app" =>
    \A a \in 1..Len(lookups), b \in 1..Len(lookups) :
      (a < b /\ lookups[a].index = lookups[b].index /\ StoredAt(a) > 0 /\ StoredAt(b) > 0) =>
        /\ StoredAt(a) < StoredAt(b)
        /\ (lookups[a].pc = "done" /\ lookups[b].pc = "done"
            /\ \A c \in LookupsFor(lookups[a].index) : c <= b) =>
             locations[lookups[a].index].origin.dailyData = b

\* the lookup has got all its answers and stored them
Completed(n) == n \in 1..Len(lookups) /\ lookups[n].pc \in {"stored", "done"}

\* a slot value that is all of one completed lookup's result
WholeResultOf(slot, n) ==
  /\ Completed(n)
  /\ slot.origin = Origin(n, n, n, n)
  /\ slot.lat = lookups[n].locationInfo.lat /\ slot.lon = lookups[n].locationInfo.lon
  /\ slot.forecast = lookups[n].forecast
  /\ slot.alerts = lookups[n].alerts
  /\ slot.dailyData.k = "obj"
  /\ DOMAIN slot.dailyData.map = { OwnZoneKey(q.startTime.s) : q \in Elems(lookups[n].forecast.items) }

-----------------------------------------------------------------------------
(* Properties of the core functions: errors and inputs that are not numbers *)

\* C11: the core functions never throw: for every period list, including periods with
\* a windSpeed that is absent or not a string, missing humidity, or null entries,
\* getDailyRealFeelRange returns a value (an object of daily summaries).
CoreNeverThrows ==
  DailyReturned => ret.val # Throw

RealFeelReturned == call.fn = "calculateRealFeel" /\ ret # Pending

\* the value is a finite number, or a string that spells one
NumericAndFinite(x) == x.k = "num" \/ (x.k = "str" /\ AllDigits(x.s))

\* C12: calculateRealFeel returns a non-finite value for every tempF that is not a
\* finite number (undefined, null, the empty string, a non-numeric string, NaN,
\* +/-Infinity) and a finite value only when tempF is numeric and finite.
RealFeelNonFiniteForBadTemp ==
  RealFeelReturned => (isFinite(ret.val) <=> NumericAndFinite(call.tempF))

-----------------------------------------------------------------------------
(* Properties of the app: slots of concurrent lookups *)

\* the lookup that stored last into slot index (0: none did)
LastStoreFor(index) ==
  LET at == { i \in 1..Len(stored) : lookups[stored[i]].index = index }
  IN  IF at = {} THEN 0 ELSE stored[CHOOSE i \in at : \A j \in at : j <= i]

\* every slot is empty or holds what the last lookup that stored into it stored
SlotsHoldLastStore ==
  \A index \in SlotIndexes :
    IF LastStoreFor(index) = 0 THEN locations[index] = Null
    ELSE /\ locations[index] # Null
         /\ locations[index].origin.dailyData = LastStoreFor(index)
         /\ locations[index].index = index
         /\ locations[index].name = lookups[LastStoreFor(index)].query

\* a step in which lookup n stores changes slot lookups[n].index only, and a step in
\* which no lookup stores changes no slot
StoreChangesOwnSlotOnly ==
  /\ \A n \in 1..Len(lookups) :
       (lookups[n].pc = "alerts" /\ lookups'[n].pc = "stored") =>
         /\ locations'[lookups[n].index] # Null
         /\ locations'[lookups[n].index].origin = Origin(n, n, n, n)
         /\ \A j \in SlotIndexes \ {lookups[n].index} : locations'[j] = locations[j]
  /\ stored' = stored => locations' = locations
  /\ SlotsHoldLastStore'

\* C13: a lookup that writes slot i changes only slot i: under every interleaving of
\* concurrent lookups, each other slot keeps exactly what the last completed lookup
\* for it stored (or stays empty), and every completed lookup's result is put into
\* its own slot.
LookupWritesOnlyItsSlot == [][call.fn = "app" => StoreChangesOwnSlotOnly]_vars

\* two lookups for different slots have both stored, the one started later first,
\* and each slot holds the result of its own lookup
TwoSlotsFilledOutOfOrder ==
  /\ call.fn = "app" /\ stored = <<2, 1>>
  /\ lookups[1].index = 0 /\ lookups[2].index = 1
  /\ locations[0].origin = Origin(1, 1, 1, 1)
  /\ locations[1].origin = Origin(2, 2, 2, 2)
  /\ locations[2] = Null

-----------------------------------------------------------------------------
(* Properties of calculateRealFeel: the two formulas *)

\* calculateRealFeel has returned for a finite tempF >= 80 and a humidity >= 40
HotHumidReturned ==
  /\ RealFeelReturned
  /\ call.tempF.k = "num" /\ call.tempF.v >= Deg(80)
  /\ call.humidityPct.k = "num" /\ call.humidityPct.v >= Deg(40)

\* the humidity limited to 0..100
Percent(h) == IF h < 0 THEN 0 ELSE IF h > Deg(100) THEN Deg(100) ELSE h

\* C14: for all T >= 80 and RH >= 40 calculateRealFeel returns the Rothfusz value, with
\* the high-humidity correction (RH - 85)/10 * (87 - T)/5 added exactly when RH > 85 and
\* 80 <= T <= 87, the low-humidity correction subtracted exactly when RH < 13 and
\* 80 <= T <= 112 (never, as RH >= 40), and no correction in any other case.
HeatIndexWithCorrections ==
  HotHumidReturned =>
    LET T == call.tempF.v
        RH == Percent(call.humidityPct.v)
        base == Rothfusz(T, RH)
        high == RH > Deg(85) /\ T <= Deg(87)
        low == RH < Deg(13) /\ T <= Deg(112)
    IN  /\ ~ low
        /\ high => ret.val = Num(base + (((RH - Deg(85)) \div 10) * ((Deg(87) - T) \div 5)) \div 1000)
        /\ ~ high => ret.val = Num(base)
        /\ ret.via = "heatIndex"

\* calculateRealFeel has returned the corrected heat index for 85 F at 90 percent
HeatIndexCorrectedUpward ==
  /\ HotHumidReturned
  /\ call.tempF = Num(Deg(85)) /\ call.humidityPct = Num(Deg(90))
  /\ ret.val = Num(Rothfusz(Deg(85), Deg(90)) + 200)

\* calculateRealFeel has returned for a finite tempF <= 50 and a finite wind
ColdReturned ==
  /\ RealFeelReturned
  /\ call.tempF.k = "num" /\ call.tempF.v <= Deg(50)
  /\ call.windSpeedMph.k = "num"

\* (35.74 - 35.75 * W^0.16) + T * (0.6215 + 0.4275 * W^0.16)
WindChillValue(T, W) ==
  35740 - Mul8(Pow016(W), 357500000) + Times(T, 62150000 + 4275 * Pow016(W))

\* C15: for all T <= 50 and W >= 3 calculateRealFeel(T, W, any humidity) is the wind
\* chill 35.74 + 0.6215 T - 35.75 W^0.16 + 0.4275 T W^0.16 (here: to within 0.002
\* degrees, the rounding of the fixed-point terms), and for a fixed T <= 50 the result
\* never increases when W increases.
WindChillFormulaAndMonotone ==
  ColdReturned =>
    LET T == call.tempF.v
        W == call.windSpeedMph.v
    IN  /\ W >= Deg(3) =>
             /\ ret.val.k = "num"
             /\ ret.val.v - WindChillValue(T, W) \in -2..2
        /\ \A w2 \in { w \in WindInputs : w.v >= W } :
             ret.val.v >= calculateRealFeel(call.tempF, w2, call.humidityPct).v

\* calculateRealFeel has returned a wind chill below 32 F for 32 F in a 20 mph wind
WindChillBelowTemperature ==
  /\ ColdReturned
  /\ call.tempF = Num(Deg(32)) /\ call.windSpeedMph = Num(Deg(20))
  /\ ret.via = "windChill" /\ ret.val.v < Deg(20) /\ ret.val.v > Deg(15)

\* the humidity the decision rules are to see: 50 for anything but a finite number,
\* else the number limited to 0..100
EffectiveHumidity(h) == IF h.k = "num" THEN Percent(h.v) ELSE Deg(50)

\* the decision rules on a finite temperature, a wind and an effective humidity
DecisionRules(T, W, RH) ==
  IF T <= Deg(50) /\ W.k = "num" /\ W.v >= Deg(3) THEN Num(calculateWindChill(T, W.v))
  ELSE IF T >= Deg(80) /\ RH >= Deg(40) THEN Num(calculateHeatIndex(T, Num(RH)))
  ELSE Num(T)

\* calculateRealFeel has returned for a temperature that is a finite number
FiniteTempReturned == RealFeelReturned /\ isFinite(Number(call.tempF))

\* C16: for every humidity input h, calculateRealFeel(T, W, h) is the result of the
\* decision rules evaluated with 50 when h is absent or not a finite number and with h
\* limited to 0..100 otherwise; the RH >= 40 gate and the heat-index formula see the same
\* value.
HumidityDefaultedAndClamped ==
  FiniteTempReturned =>
    LET RH == EffectiveHumidity(call.humidityPct)
    IN  /\ ret.val = DecisionRules(Number(call.tempF).v, Number(call.windSpeedMph), RH)
        /\ ret.via = "heatIndex" <=> (Number(call.tempF).v >= Deg(80) /\ RH >= Deg(40))

\* calculateRealFeel has returned the heat index at 50 percent for 95 F and a humidity
\* that is not a number
HeatIndexAtDefaultHumidity ==
  /\ FiniteTempReturned
  /\ call.tempF = Num(Deg(95)) /\ call.humidityPct = NaN
  /\ ret.via = "heatIndex"
  /\ ret.val = Num(calculateHeatIndex(Deg(95), Num(Deg(50))))
  /\ ret.val.v > Deg(95)

-----------------------------------------------------------------------------
(* Properties of the RealFeel of a period *)

\* the percent a period gives as its relativeHumidity, as a number or as { value }
OwnHumidity(p) ==
  LET r == p.relativeHumidity
  IN  IF r.k = "num" THEN r
      ELSE IF r.k = "obj" THEN r.value
      ELSE Undefined

\* the RealFeel of a period computed with the period's own humidity
FeelWithOwnHumidity(p) ==
  IF isFinite(periodApparentF(p)) THEN periodApparentF(p)
  ELSE calculateRealFeel(periodTempF(p), parseWindSpeedMph(p.windSpeed), OwnHumidity(p))

FiniteOwnFeels(ps, idx) ==
  { FeelWithOwnHumidity(ps[i]).v : i \in { j \in idx : isFinite(FeelWithOwnHumidity(ps[j])) } }

\* C17: each period's RealFeel is computed with that period's own relativeHumidity when
\* it is a numeric percent and with 50 only when it is absent: every day's realFeelHigh
\* and realFeelLow are the rounded extremes of the values so computed (95 for a period
\* of 95 F with relativeHumidity 30).
RealFeelUsesOwnHumidity ==
  DailyValue =>
    \A date \in DOMAIN ret.val.map :
      LET ps == call.periods
          idx == { i \in 1..Len(ps) : KeyFor(ret.rev, ps[i]) = date }
          d == ret.val.map[date]
      IN  /\ d.realFeelHigh = RoundedOrNull(FiniteOwnFeels(ps, idx), SetMax)
          /\ d.realFeelLow = RoundedOrNull(FiniteOwnFeels(ps, idx), SetMin)

\* the apparent temperature a period reports in Fahrenheit, when it reports a finite
\* one: a number, or { value, unitCode } with Celsius converted
ReportedFeel(p) ==
  LET a == p.apparentTemperature
  IN  IF a.k = "num" THEN a
      ELSE IF a.k = "obj" /\ a.value.k = "num"
        THEN IF a.unitCode.k = "str" /\ MatchesDegC(a.unitCode.s)
               THEN Num((a.value.v * 9) \div 5 + Deg(32))
               ELSE a.value
      ELSE Null

\* the RealFeel of a period: the reported one, else the computed one
PreferredFeel(p) ==
  IF ReportedFeel(p) # Null THEN ReportedFeel(p)
  ELSE calculateRealFeel(periodTempF(p), parseWindSpeedMph(p.windSpeed), periodHumidity(p))

FinitePreferredFeels(ps, idx) ==
  { PreferredFeel(ps[i]).v : i \in { j \in idx : isFinite(PreferredFeel(ps[j])) } }

\* C18: when a period's apparentTemperature is present and finite (a number, or
\* { value, unitCode }) it is that period's RealFeel instead of the computed value,
\* converted with F = C * 9 / 5 + 32 when the unit code indicates Celsius and taken as
\* Fahrenheit for any other or missing unit code; otherwise the computed value is used.
\* Every day's realFeelHigh and realFeelLow are the rounded extremes of these values.
ReportedApparentPreferred ==
  DailyValue =>
    \A date \in DOMAIN ret.val.map :
      LET ps == call.periods
          idx == { i \in 1..Len(ps) : KeyFor(ret.rev, ps[i]) = date }
          d == ret.val.map[date]
      IN  /\ d.realFeelHigh = RoundedOrNull(FinitePreferredFeels(ps, idx), SetMax)
          /\ d.realFeelLow = RoundedOrNull(FinitePreferredFeels(ps, idx), SetMin)

\* the period of 95 F reporting 21 C was summarised with a RealFeel of 70 (69.8 F), and
\* the period of 75 F reporting 80 without a unit code with a RealFeel of 80
ReportedCelsiusConverted ==
  /\ DailyReturned /\ ret.rev = "split"
  /\ call.periods = <<PeriodWest, PeriodApparentNoUnit>>
  /\ ret.val.map[Jun01].high = Num(Deg(95))
  /\ ret.val.map[Jun01].realFeelHigh = Num(Deg(70))
  /\ ret.val.map[Jun02].high = Num(Deg(75))
  /\ ret.val.map[Jun02].realFeelHigh = Num(Deg(80))

-----------------------------------------------------------------------------
(* parseWindSpeedMph called on its own *)

\* the longest text made of WindChars
MaxText == 3

WindChars == {"5", "1", "0", ".", " ", "G", "-", "t"}

Mph12 == Str(<<"1", "2", " ", "m", "p", "h">>)

\* the windSpeedStr arguments: every short text of WindChars, three forecast texts, and
\* no text
WindTexts ==
  { Str(t) : t \in SeqsUpTo(WindChars, MaxText) } \cup { Mph5to10, Mph12, Mph5, Undefined, Null }

InitWind ==
  /\ tz = 0 /\ now = 0 /\ AppIdle
  /\ call \in { [fn |-> "parseWindSpeedMph", windSpeedStr |-> t] : t \in WindTexts }
  /\ ret = Pending

CallParseWindSpeed ==
  /\ call.fn = "parseWindSpeedMph" /\ ret = Pending
  /\ ret' = [k |-> "ret", val |-> parseWindSpeedMph(call.windSpeedStr)]
  /\ UNCHANGED <<tz, now, call, appVars>>

NextWind == CallParseWindSpeed

SpecWind == InitWind /\ [][NextWind]_vars

\* parseWindSpeedMph has returned for a text
WindReturned == call.fn = "parseWindSpeedMph" /\ ret # Pending /\ call.windSpeedStr.k = "str"

\* where the runs of digits of s start
RunStarts(s) == { i \in 1..Len(s) : IsDigit(s[i]) /\ (i = 1 \/ ~ IsDigit(s[i - 1])) }

\* the run of digits that starts at i is the fraction of a numeric token: it follows
\* "." after a run that is not itself a fraction
RECURSIVE IsFractionRun(_, _)
IsFractionRun(s, i) ==
  /\ i >= 3 /\ s[i - 1] = "." /\ IsDigit(s[i - 2])
  /\ ~ IsFractionRun(s, CHOOSE a \in RunStarts(s) : a <= i - 2 /\ RunEnd(s, a) = i - 2)

\* where the numeric tokens of s start
TokenStarts(s) == { i \in RunStarts(s) : ~ IsFractionRun(s, i) }

\* the value of the numeric token of s that starts at i
TokenValue(s, i) ==
  LET j == RunEnd(s, i)
  IN  Deg(NumAt(s, i, j))
      + (IF j + 2 <= Len(s) /\ s[j + 1] = "." /\ IsDigit(s[j + 2])
           THEN FracValue(SubSeq(s, j + 2, RunEnd(s, j + 2)))
           ELSE 0)

RECURSIVE TokenSum(_, _)
TokenSum(s, S) ==
  IF S = {} THEN 0
  ELSE LET i == CHOOSE x \in S : TRUE IN TokenValue(s, i) + TokenSum(s, S \ {i})

\* C19: parseWindSpeedMph(text) is the arithmetic mean of all numeric tokens found in
\* the text and 0 when there is none, and it is never negative; "5 to 10 mph" gives
\* 7.5, "12 mph" gives 12 and "" gives 0.
WindSpeedIsMeanOfTokens ==
  WindReturned =>
    LET s == call.windSpeedStr.s
        tokens == TokenStarts(s)
    IN  /\ ret.val.k = "num" /\ ret.val.v >= 0
        /\ tokens = {} => ret.val = Num(0)
        /\ tokens # {} => ret.val = Num(TokenSum(s, tokens) \div Cardinality(tokens))
        /\ call.windSpeedStr = Mph5to10 => ret.val = Num(7500)
        /\ call.windSpeedStr = Mph12 => ret.val = Num(Deg(12))
        /\ s = <<>> => ret.val = Num(0)

\* parseWindSpeedMph has returned 7.5 for "5 to 10 mph"
RangeAveraged ==
  /\ WindReturned
  /\ call.windSpeedStr = Mph5to10
  /\ ret.val = Num(7500)

-----------------------------------------------------------------------------
(* Properties of the bounds of an alert *)

\* whether a feature with properties p applies on the day of key when its start is the
\* first present of effective, onset, sent, else the start of the day, and its end the
\* first present of expires, ends, else the end of the day
AppliesByFirstPresent(p, key, zone) ==
  LET dayStart == FirstSecond(key, zone)
      dayEnd == LastSecond(key, zone)
      start == IF Present(StartStamp(p)) THEN InstantOf(StartStamp(p).s) ELSE dayStart
      end == IF Present(EndStamp(p)) THEN InstantOf(EndStamp(p).s) ELSE dayEnd
  IN  dayStart <= end /\ dayEnd >= start

\* the features with a properties object
FeaturesWithProperties == { f \in FeatureInputs : f.properties.k = "obj" }

\* C20: the alert's start is the first present of effective, onset, sent (in that
\* order) and its end the first present of expires, ends (in that order); without a
\* start field the start is the day's own start and without an end field the end is
\* the day's own end, so an alert with neither bound applies on every day and an alert
\* with only a start on every day from its start date on. Stated for a feature given to
\* alertAppliesOnDate as it is, and for a feature given to it as the object
\* fetchNWSAlerts makes of it.
AlertBoundsFirstPresent ==
  AppliesReturned =>
    \A f \in FeaturesWithProperties :
      /\ (ret.rev = "properties" /\ call.alert = f) =>
           ret.val = AppliesByFirstPresent(f.properties, call.dateKey, tz)
      /\ (ret.rev = "startEnd" /\ call.alert = normalizeAlert(f, now, tz)) =>
           ret.val = AppliesByFirstPresent(f.properties, call.dateKey, tz)

-----------------------------------------------------------------------------
(* Properties of the day keys of the table *)

\* C21: day keys are derived from a slot's raw periods only as a fallback, when the slot
\* has no summary map: every returned key is a key of some slot's summary map or the
\* key of a period of a slot without a summary map.
PeriodsAreFallbackOnly ==
  DeriveReturned =>
    Elems(ret.val) \subseteq
      (SummaryKeys(call.locations) \cup FallbackKeys(call.locations, now, tz))

\* s is a fixed-width date string YYYY-MM-DD
IsDateKey(s) == Len(s) = 10 /\ IsIsoDate(s)

\* C22: every key of a summary map made by getDailyRealFeelRange and every element
\* returned by deriveDateKeys is a fixed-width YYYY-MM-DD date string, also for periods
\* without a usable startTime, so that no other key passes the today-or-later filter.
KeysAreFixedWidthDates ==
  DeriveReturned =>
    /\ \A loc \in { l \in Elems(call.locations) : HasSummaryMap(l) } :
         \A key \in DOMAIN loc.dailyData.map : IsDateKey(key)
    /\ \A i \in 1..Len(ret.val) : IsDateKey(ret.val[i])

-----------------------------------------------------------------------------
(* Properties of the app: lookups that fail *)

\* lookup n takes a step
Steps(n) == n <= Len(lookups) /\ lookups'[n] # lookups[n]

\* no slot holds anything of a lookup that failed, and no failed lookup stored
FailedLookupsLeftNothing ==
  \A n \in 1..Len(lookups) :
    lookups[n].failed =>
      /\ StoredAt(n) = 0
      /\ lookups[n].pc \in {"failed", "done"}
      /\ \A index \in SlotIndexes :
           locations[index] # Null => locations[index].origin.dailyData # n

\* a step of a lookup that fails or has failed changes no slot and renders nothing
FailureChangesNothing ==
  /\ \A n \in 1..Len(lookups) :
       (Steps(n) /\ lookups'[n].failed) =>
         /\ locations' = locations
         /\ rendered' = rendered
         /\ stored' = stored
         /\ cookie' = cookie
         /\ lookups'[n].pc \in {"failed", "done"}
  /\ FailedLookupsLeftNothing'

\* C23: when a lookup for slot i fails at any step (geocoding, forecast fetch, an
\* invalid forecast), the lookup changes no slot, no table is rendered for it, and
\* updateLocation ends in its catch and finally blocks: every slot keeps what it had.
FailedLookupKeepsSlots == [][call.fn = "app" => FailureChangesNothing]_vars

\* lookup 2 for the slot that holds the result of lookup 1 has failed at its forecast
\* and ended, and the slot and the table still hold the result of lookup 1
FailedAfterForecastSlotKept ==
  /\ call.fn = "app" /\ Len(lookups) = 2
  /\ lookups[1].index = lookups[2].index
  /\ lookups[2].failed /\ lookups[2].pc = "done" /\ lookups[2].locationInfo # Undefined
  /\ locations[lookups[2].index] # Null
  /\ locations[lookups[2].index].origin = Origin(1, 1, 1, 1)
  /\ rendered = <<locations[lookups[2].index]>>
  /\ stored = <<1>>

-----------------------------------------------------------------------------
(* Properties of the app: alerts that cannot be fetched *)

\* the lists fetchNWSAlerts can make of the alerts of a place: those of the zone
\* request, if it succeeded, followed by those of the county request, if it succeeded
AlertsObtainable(name) ==
  { zone \o county : zone \in {AlertsOf(name), <<>>}, county \in {CountyAlertsOf(name), <<>>} }

\* when the alerts of lookup n come in, whatever failed while they were fetched, the
\* lookup stores its forecast, its daily summaries and the alerts obtained
AlertsStepPopulates ==
  \A n \in 1..Len(lookups) :
    (lookups[n].pc = "alerts" /\ Steps(n)) =>
      LET l == lookups'[n]
          slot == locations'[l.index]
      IN  /\ l.pc = "stored" /\ ~ l.failed
          /\ slot # Null
          /\ slot.origin = Origin(n, n, n, n)
          /\ slot.forecast = lookups[n].forecast
          /\ slot.dailyData = getDailyRealFeelRange(lookups[n].forecast.items)
          /\ slot.alerts.k = "arr"
          /\ slot.alerts.items \in AlertsObtainable(l.query)

\* C24: a failure while fetching alerts never prevents a slot from being populated:
\* fetchNWSAlerts returns the alerts obtained so far (possibly none) when the zone
\* request, the county request or both fail or the point metadata is missing, and
\* setLocation stores the forecast periods and the daily summaries of the slot.
AlertFailureStillPopulates == [][call.fn = "app" => AlertsStepPopulates]_vars

\* a lookup for Miami whose zone request failed has stored its forecast and summaries
\* with the alert of the county alone
StoredWithCountyAlertsOnly ==
  /\ call.fn = "app" /\ Len(lookups) >= 1
  /\ lookups[1].query = Miami /\ lookups[1].pc = "stored"
  /\ locations[lookups[1].index] # Null
  /\ locations[lookups[1].index].alerts.items = <<AlertLong>>
  /\ locations[lookups[1].index].forecast.items = ForecastOf(Miami)
  /\ DOMAIN locations[lookups[1].index].dailyData.map = {Jun02}

-----------------------------------------------------------------------------
(* Properties of the app: the loading indicator *)

\* the updateLocation calls that have not ended
InFlight == { n \in 1..Len(lookups) : lookups[n].pc # "done" }

\* the step in which an updateLocation call ends hides the indicator, and the
\* indicator is hidden when no call is left
EndHidesLoading ==
  /\ \A n \in 1..Len(lookups) :
       (Steps(n) /\ lookups'[n].pc = "done") => loading' = FALSE
  /\ (InFlight = {})' => loading' = FALSE

\* C25: every updateLocation call that showed the loading indicator hides it when it
\* ends, on success and on every error path: whenever no lookup is in flight any more,
\* the indicator is hidden.
LoadingHiddenWhenIdle == [][call.fn = "app" => EndHidesLoading]_vars

\* two lookups have ended, one with its slot stored and one after its forecast failed,
\* and the indicator is hidden
AllEndedLoadingHidden ==
  /\ call.fn = "app" /\ Len(lookups) = 2 /\ InFlight = {}
  /\ ~ lookups[1].failed /\ StoredAt(1) > 0
  /\ lookups[2].failed /\ lookups[2].locationInfo # Undefined
  /\ loading = FALSE

\* C26: the loading indicator is visible in every state in which at least one lookup is
\* in flight: the end of one of several overlapping updateLocation calls does not hide
\* it while another is still running.
LoadingShownWhileInFlight ==
  (call.fn = "app" /\ InFlight # {}) => loading = TRUE

-----------------------------------------------------------------------------
(* Properties of the app: removed locations *)

\* C27: after removeLocation(i) slot i is empty and stays empty until a new lookup for
\* i is started: no slot holds the result of a lookup that was in flight when the slot
\* was removed.
RemovedSlotStaysEmpty ==
  call.fn = "app" =>
    \A index \in SlotIndexes :
      locations[index] # Null => ~ lookups[locations[index].origin.dailyData].orphaned

-----------------------------------------------------------------------------
(* Properties of the table *)

TableReturned == call.fn = "renderWeatherTable" /\ ret # Pending /\ ret.val.k = "table"

\* the location has something to be called by in the header
HasName(loc) ==
  \/ loc.city.k = "str" /\ loc.city.s # <<>>
  \/ loc.state.k = "str" /\ loc.state.s # <<>>
  \/ loc.label.k = "str" /\ loc.label.s # <<>>

\* the locations that get a header column, in the order of their slots
ShownLocations(locs) == SelectSeq(locs, LAMBDA loc : loc # Null /\ HasName(loc))

\* C28: every body row has as many location cells as the header has location columns,
\* and the cell in column i of every row shows the data of the location whose label
\* is in header column i, for every combination of empty slots
\* and of locations without city, state or label.
TableColumnsAligned ==
  TableReturned =>
    LET shown == ShownLocations(call.locationsInput)
        header == ret.val.header
    IN  /\ Len(header) = Len(shown)
        /\ \A r \in 1..Len(ret.val.rows) :
             LET row == ret.val.rows[r]
             IN  /\ Len(row) = Len(header)
                 /\ \A i \in 1..Len(row) :
                      /\ header[i] = headerLabel(shown[i])
                      /\ row[i].k = "cell"
                      /\ row[i].loc = shown[i]

-----------------------------------------------------------------------------
(* Properties of the daily summaries *)

\* C29: every daily summary is well formed: high is null exactly when low is null and
\* realFeelHigh is null exactly when realFeelLow is null; when they are not null,
\* low <= high and realFeelLow <= realFeelHigh; and a summary with a high has a
\* realFeelHigh too, since a period with a finite temperature has a finite RealFeel.
DailySummariesWellFormed ==
  DailyValue =>
    \A date \in DOMAIN ret.val.map :
      LET day == ret.val.map[date]
      IN  /\ (day.high = Null) <=> (day.low = Null)
          /\ (day.realFeelHigh = Null) <=> (day.realFeelLow = Null)
          /\ day.high # Null => (day.low # Null /\ day.low.v <= day.high.v)
          /\ day.realFeelHigh # Null => (day.realFeelLow # Null /\ day.realFeelLow.v <= day.realFeelHigh.v)
          /\ day.high # Null => day.realFeelHigh # Null

\* a day has a range of temperatures and a range of RealFeels, and every RealFeel of
\* the call is computed, none reported
DayWithRangeAndDayWithout ==
  /\ DailyValue
  /\ \A i \in 1..Len(call.periods) :
       call.periods[i] # Null /\ ~ isFinite(periodApparentF(call.periods[i]))
  /\ \E date \in DOMAIN ret.val.map :
       LET day == ret.val.map[date]
       IN  day.high # Null /\ day.low.v < day.high.v
           /\ day.realFeelHigh # Null /\ day.realFeelLow.v < day.realFeelHigh.v

-----------------------------------------------------------------------------
(* Properties of the low-humidity branch *)

HeatIndexReturned == call.fn = "calculateHeatIndex" /\ ret # Pending

\* the humidity calculateHeatIndex works with: 50 for a missing one, clamped to 0..100
HeatHumidity(h) == IF isNullish(h) THEN Deg(50) ELSE Percent(h.v)

\* C30: the low-humidity correction (RH < 13 and 80 <= T <= 112) is applied for no
\* input: calculateRealFeel and calculateHeatIndex both return T for every T >= 80 and
\* RH < 40, and a result of calculateHeatIndex that is neither T nor the value of the
\* regression lies in the band of the high-humidity correction.
LowHumidityCorrectionNeverApplied ==
  /\ ( /\ RealFeelReturned
       /\ isFinite(Number(call.tempF)) /\ Number(call.tempF).v >= Deg(80)
       /\ isFinite(call.humidityPct) /\ call.humidityPct.v < Deg(40) )
     => (ret.val = Number(call.tempF) /\ ret.via = "temp")
  /\ HeatIndexReturned =>
       LET T == call.tempF.v
           RH == HeatHumidity(call.humidityPct)
       IN  /\ (T >= Deg(80) /\ RH < Deg(40)) => ret.val = Num(T)
           /\ ret.val \notin {Num(T), Num(Rothfusz(T, RH))}
                => (RH > Deg(85) /\ T >= Deg(80) /\ T <= Deg(87))

\* calculateHeatIndex has returned the temperature for a temperature and a humidity in
\* the band of the low-humidity correction
LowHumidityBandReturnsTemperature ==
  /\ HeatIndexReturned
  /\ call.tempF.v >= Deg(80) /\ call.tempF.v <= Deg(112)
  /\ HeatHumidity(call.humidityPct) < Deg(13)
  /\ ret.val = call.tempF

====
